---------------------------- MODULE Spec2Model ----------------------------
(***************************************************************************)
(* Black & Light: the image pipeline of lib/ (analysis, ink map, dithering, *)
(* post-processing, auto-tune loop, rescue pass) and the HTTP route that    *)
(* calls it, as a state machine over small rasters.                         *)
(*                                                                          *)
(* Numbers.  The code computes in IEEE doubles and stores rasters in        *)
(* Float32Array.  The model computes in fixed point: a real v is the        *)
(* integer round(v * ONE), ONE = 10^6.  Products and quotients are          *)
(* truncated to that unit.  NaN is the value NaN (only an undefined preset  *)
(* field produces it) and +Infinity is the value Infinity.                  *)
(* sin, cos, exp and pow are evaluated by the approximations defined with   *)
(* them; each is exact where the model's rasters put the argument at 0 or 1.*)
(*                                                                          *)
(* Rasters are functions on 0 .. width*height-1, row-major, as in the code. *)
(***************************************************************************)
EXTENDS Integers, Sequences, FiniteSets, TLC

ONE == 1000 * 1000
NaN == 0 - (1000 * ONE)
Infinity == 2000 * ONE
EPS == 1

IsNaN(v) == v = NaN

Max(a, b) == IF a >= b THEN a ELSE b
Min(a, b) == IF a <= b THEN a ELSE b
Abs(a) == IF a < 0 THEN 0 - a ELSE a

\* JS relational operators: any comparison with NaN is false.
Lt(a, b) == ~IsNaN(a) /\ ~IsNaN(b) /\ a < b
Gt(a, b) == ~IsNaN(a) /\ ~IsNaN(b) /\ a > b
Ge(a, b) == ~IsNaN(a) /\ ~IsNaN(b) /\ a >= b

\* Fixed-point product a*b and quotient a/b (b > 0), NaN-propagating.
MulPos(a, b) ==
  LET a1 == a \div 1000
      a0 == a % 1000
      b1 == b \div 1000
      b0 == b % 1000
  IN  a1 * b1 + (a1 * b0 + a0 * b1) \div 1000 + (a0 * b0) \div ONE

Mul(a, b) ==
  IF IsNaN(a) \/ IsNaN(b) THEN NaN
  ELSE IF (a < 0) = (b < 0) THEN MulPos(Abs(a), Abs(b))
  ELSE 0 - MulPos(Abs(a), Abs(b))

DivSmall(a, b) ==
  LET q == a \div b
      r == a % b
      q1 == (r * 1000) \div b
      r1 == (r * 1000) % b
  IN  q * ONE + q1 * 1000 + (r1 * 1000) \div b

\* Divisors above 2 are scaled down with the dividend to keep the partial
\* products in range.
DivPos(a, b) == IF b > 2 * ONE THEN DivSmall(a \div 8, b \div 8) ELSE DivSmall(a, b)

Div(a, b) ==
  IF IsNaN(a) \/ IsNaN(b) THEN NaN
  ELSE IF a < 0 THEN 0 - DivPos(0 - a, b)
  ELSE DivPos(a, b)

\* Math.round of the rational n/d (d > 0): halves round up.
RoundDiv(n, d) == (2 * n + d) \div (2 * d)

clamp01(v) ==
  IF IsNaN(v) THEN NaN
  ELSE IF v < 0 THEN 0
  ELSE IF v > ONE THEN ONE
  ELSE v

Pixels(width, height) == 0 .. (width * height - 1)

\* An array filled element by element: f[0] .. f[n-1], each computed once.
RECURSIVE Elements(_, _, _)
Elements(f, k, n) == IF k >= n THEN <<>> ELSE <<f[k]>> \o Elements(f, k + 1, n)

\* The value of a one-element set: The({e(x) : x \in {v}}) is e(v), with v
\* computed once.
The(S) == CHOOSE v \in S : TRUE

Stored(f) ==
  LET n == Cardinality(DOMAIN f)
      s == Elements(f, 0, n)
  IN  [i \in 0 .. n - 1 |-> s[i + 1]]

(***************************************************************************)
(* Presets (the richer table).  Fractional fields are in units of 1/ONE.    *)
(***************************************************************************)
PresetIds ==
  {"neon-contour", "silhouette-etch", "industrial-noise", "crowd-ghost", "topo-stroke"}

PRESETS ==
  [id \in PresetIds |->
    CASE id = "neon-contour" ->
      [id |-> "neon-contour", edgeWeight |-> 820000, fillWeight |-> 200000,
       textureWeight |-> 200000, ghostWeight |-> 720000, strokeThickness |-> 1,
       grainScale |-> 7, smoothing |-> 1400000, whiteCoverageTarget |-> 130000,
       coverageTolerance |-> 25000, componentMinArea |-> 2,
       componentMaxCount |-> 9000, centerBias |-> 300000, edgeGamma |-> 740000,
       fillGamma |-> 1600000, bandFrequency |-> 2800000, spaceiness |-> 680000,
       backgroundSuppression |-> 720000, lumaSuppression |-> 660000,
       isolationRadius |-> 1, isolateWhites |-> TRUE,
       minWhiteCoverageFloor |-> 80000, centerFocus |-> 480000,
       topSuppression |-> 340000, dither |-> "floyd"]
    [] id = "silhouette-etch" ->
      [id |-> "silhouette-etch", edgeWeight |-> 500000, fillWeight |-> 280000,
       textureWeight |-> 120000, ghostWeight |-> 580000, strokeThickness |-> 2,
       grainScale |-> 8, smoothing |-> 1600000, whiteCoverageTarget |-> 150000,
       coverageTolerance |-> 25000, componentMinArea |-> 3,
       componentMaxCount |-> 7000, centerBias |-> 340000, edgeGamma |-> 900000,
       fillGamma |-> 1260000, bandFrequency |-> 2200000, spaceiness |-> 560000,
       backgroundSuppression |-> 700000, lumaSuppression |-> 560000,
       isolationRadius |-> 1, isolateWhites |-> TRUE,
       minWhiteCoverageFloor |-> 50000, centerFocus |-> 420000,
       topSuppression |-> 300000, dither |-> "bayer"]
    [] id = "industrial-noise" ->
      [id |-> "industrial-noise", edgeWeight |-> 620000, fillWeight |-> 300000,
       textureWeight |-> 500000, ghostWeight |-> 420000, strokeThickness |-> 1,
       grainScale |-> 5, smoothing |-> 1000000, whiteCoverageTarget |-> 160000,
       coverageTolerance |-> 30000, componentMinArea |-> 2,
       componentMaxCount |-> 12000, centerBias |-> 60000, edgeGamma |-> 860000,
       fillGamma |-> 1200000, bandFrequency |-> 3600000, spaceiness |-> 620000,
       backgroundSuppression |-> 440000, lumaSuppression |-> 380000,
       isolationRadius |-> 1, isolateWhites |-> FALSE,
       minWhiteCoverageFloor |-> 120000, centerFocus |-> 100000,
       topSuppression |-> 150000, dither |-> "floyd"]
    [] id = "crowd-ghost" ->
      [id |-> "crowd-ghost", edgeWeight |-> 540000, fillWeight |-> 200000,
       textureWeight |-> 320000, ghostWeight |-> 780000, strokeThickness |-> 1,
       grainScale |-> 7, smoothing |-> 1800000, whiteCoverageTarget |-> 120000,
       coverageTolerance |-> 20000, componentMinArea |-> 1,
       componentMaxCount |-> 14000, centerBias |-> 300000, edgeGamma |-> 940000,
       fillGamma |-> 1400000, bandFrequency |-> 2500000, spaceiness |-> 830000,
       backgroundSuppression |-> 820000, lumaSuppression |-> 820000,
       isolationRadius |-> 1, isolateWhites |-> TRUE,
       minWhiteCoverageFloor |-> 40000, centerFocus |-> 520000,
       topSuppression |-> 520000, dither |-> "bayer"]
    [] id = "topo-stroke" ->
      [id |-> "topo-stroke", edgeWeight |-> 660000, fillWeight |-> 240000,
       textureWeight |-> 280000, ghostWeight |-> 840000, strokeThickness |-> 1,
       grainScale |-> 4, smoothing |-> 1400000, whiteCoverageTarget |-> 150000,
       coverageTolerance |-> 30000, componentMinArea |-> 1,
       componentMaxCount |-> 11000, centerBias |-> 240000, edgeGamma |-> 800000,
       fillGamma |-> 1350000, bandFrequency |-> 4200000, spaceiness |-> 700000,
       backgroundSuppression |-> 680000, lumaSuppression |-> 600000,
       isolationRadius |-> 1, isolateWhites |-> TRUE,
       minWhiteCoverageFloor |-> 90000, centerFocus |-> 450000,
       topSuppression |-> 300000, dither |-> "floyd"]]

\* What reading a field of a value that is not a preset record yields: undefined,
\* which is NaN in arithmetic, false in a condition, and no dither name.
UndefinedFields ==
  [id |-> "undefined", edgeWeight |-> NaN, fillWeight |-> NaN,
   textureWeight |-> NaN, ghostWeight |-> NaN, strokeThickness |-> NaN,
   grainScale |-> NaN, smoothing |-> NaN, whiteCoverageTarget |-> NaN,
   coverageTolerance |-> NaN, componentMinArea |-> NaN,
   componentMaxCount |-> NaN, centerBias |-> NaN, edgeGamma |-> NaN,
   fillGamma |-> NaN, bandFrequency |-> NaN, spaceiness |-> NaN,
   backgroundSuppression |-> NaN, lumaSuppression |-> NaN,
   isolationRadius |-> NaN, isolateWhites |-> FALSE,
   minWhiteCoverageFloor |-> NaN, centerFocus |-> NaN,
   topSuppression |-> NaN, dither |-> "undefined"]

\* PRESETS is an object literal, so PRESETS[key] also finds what it inherits
\* from Object.prototype: a function or object, none of them a preset.
ObjectPrototypeKeys ==
  {"constructor", "toString", "valueOf", "hasOwnProperty", "__proto__"}

\* PRESETS[key]: own property, inherited property, or undefined.
PresetsGet(key) ==
  IF key \in PresetIds THEN [kind |-> "own", value |-> PRESETS[key]]
  ELSE IF key \in ObjectPrototypeKeys
    THEN [kind |-> "inherited", value |-> UndefinedFields]
  ELSE [kind |-> "undefined", value |-> UndefinedFields]

\* PRESETS[options.presetId] ?? PRESETS['neon-contour']
resolvePreset(presetId) ==
  IF PresetsGet(presetId).kind = "undefined"
  THEN PRESETS["neon-contour"]
  ELSE PresetsGet(presetId).value

(***************************************************************************)
(* Frame modulation.  An absent frame, or an absent field, is Undefined.    *)
(***************************************************************************)
Undefined == NaN - 1

NoFrame == [given |-> FALSE, phase |-> Undefined, flowStrength |-> Undefined,
            jitter |-> Undefined]

Frame(phase, flowStrength, jitter) ==
  [given |-> TRUE, phase |-> phase, flowStrength |-> flowStrength, jitter |-> jitter]

OrOne(frame, f) ==
  IF ~frame.given \/ frame[f] = Undefined THEN ONE ELSE frame[f]

\* frame?.f ?? 0
OrZero(frame, f) ==
  IF ~frame.given \/ frame[f] = Undefined THEN 0 ELSE frame[f]

resolveFrameOptions(frame) ==
  [phase |-> OrZero(frame, "phase"),
   flowStrength |-> clamp01(OrZero(frame, "flowStrength")),
   jitter |-> clamp01(OrZero(frame, "jitter"))]

(***************************************************************************)
(* NaN-aware arithmetic on values that may come from an undefined field.    *)
(***************************************************************************)
Add(a, b) == IF IsNaN(a) \/ IsNaN(b) THEN NaN ELSE a + b
Sub(a, b) == IF IsNaN(a) \/ IsNaN(b) THEN NaN ELSE a - b

\* Math.max, Math.min: NaN if either argument is NaN.
MathMax(a, b) == IF IsNaN(a) \/ IsNaN(b) THEN NaN ELSE Max(a, b)
MathMin(a, b) == IF IsNaN(a) \/ IsNaN(b) THEN NaN ELSE Min(a, b)
MathAbs(a) == IF IsNaN(a) THEN NaN ELSE Abs(a)

\* Math.round(n * f) for an integer n and a fixed-point f >= 0.
RoundIntTimes(n, f) ==
  IF IsNaN(n) \/ IsNaN(f) THEN NaN
  ELSE LET hi == n * (f \div 1000)
           lo == n * (f % 1000)
       IN  (hi \div 1000) + RoundDiv((hi % 1000) * 1000 + lo, ONE)

XOf(i, width) == i % width
YOf(i, width) == i \div width

Zeros(width, height) == Stored([i \in Pixels(width, height) |-> 0])

(***************************************************************************)
(* metrics.ts                                                              *)
(***************************************************************************)
WhiteCount(data) == Cardinality({i \in DOMAIN data : data[i] # 0})

\* computeBinaryStats(image).whiteRatio
computeBinaryStats(width, height, data) ==
  IF width * height > 0 THEN (WhiteCount(data) * ONE) \div (width * height) ELSE 0

\* The 4-neighbours of pixel i that the labelling loops accept: index in range
\* and at L1 distance exactly 1 (which rejects the wrap from a row's end to
\* the next row's start).
Neighbours4(i, width, height) ==
  {n \in {i - 1, i + 1, i - width, i + width} :
     /\ n >= 0
     /\ n < width * height
     /\ Abs(XOf(n, width) - XOf(i, width)) + Abs(YOf(n, width) - YOf(i, width)) = 1}

RECURSIVE Flood(_, _, _, _)
Flood(seen, data, width, height) ==
  LET next == seen \cup {n \in UNION {Neighbours4(i, width, height) : i \in seen} :
                           data[n] = 1}
  IN  IF next = seen THEN seen ELSE Flood(next, data, width, height)

\* The components in the order the scan discovers them (ascending first index).
RECURSIVE ComponentsFrom(_, _, _, _, _)
ComponentsFrom(idx, visited, data, width, height) ==
  IF idx >= width * height THEN <<>>
  ELSE IF data[idx] = 0 \/ idx \in visited
    THEN ComponentsFrom(idx + 1, visited, data, width, height)
  ELSE LET comp == Flood({idx}, data, width, height)
       IN  <<comp>> \o ComponentsFrom(idx + 1, visited \cup comp, data, width, height)

RECURSIVE SeqSum(_)
SeqSum(s) == IF s = <<>> THEN 0 ELSE Head(s) + SeqSum(Tail(s))

RECURSIVE SeqMax(_)
SeqMax(s) == IF s = <<>> THEN 0 ELSE Max(Head(s), SeqMax(Tail(s)))

connectedComponents(width, height, data) ==
  LET comps == ComponentsFrom(0, {}, data, width, height)
      areas == [k \in DOMAIN comps |-> Cardinality(comps[k])]
  IN  [count |-> Len(areas),
       meanArea |-> IF Len(areas) > 0 THEN (SeqSum(areas) * ONE) \div Len(areas) ELSE 0,
       maxArea |-> IF Len(areas) > 0 THEN SeqMax(areas) ELSE 0,
       areas |-> areas]

\* The comparison with the two sides as exact reals.
edgeAlignmentAbove(data, edgeMap) ==
  LET white == {i \in DOMAIN data : data[i] = 1}
      aligned == {i \in white : Gt(edgeMap[i], 200000)}
  IN  IF white # {} THEN (Cardinality(aligned) * ONE) \div Cardinality(white) ELSE 0

\* edgeMap[i] > 0.2 compares an element of a Float32Array with the double 0.2.
\* No 32-bit float equals that double: a magnitude of 0.2 is stored as the
\* nearest one, 0.20000000298, which is above it (the float below is
\* 0.19999998808).  The elements above the double are therefore the stored
\* magnitudes from 0.2 on, and the stored 0.2 passes the test.
edgeAlignment(data, edgeMap) ==
  LET white == {i \in DOMAIN data : data[i] = 1}
      aligned == {i \in white : Ge(edgeMap[i], 200000)}
  IN  IF white # {} THEN (Cardinality(aligned) * ONE) \div Cardinality(white) ELSE 0

(***************************************************************************)
(* Dithering, morphology, pruning, isolation (the binarizer).               *)
(***************************************************************************)
RECURSIVE SortByGuideAscending(_, _)
SortByGuideAscending(rest, guide) ==
  IF rest = {} THEN <<>>
  ELSE LET first == CHOOSE a \in rest :
                      \A b \in rest :
                        guide[a] < guide[b] \/ (guide[a] = guide[b] /\ a <= b)
       IN  <<first>> \o SortByGuideAscending(rest \ {first}, guide)

\* order.sort((a, b) => guide[b] - guide[a]) on the ascending index list: the
\* sort is stable, so equal guide values keep ascending index order.
RECURSIVE SortByGuide(_, _)
SortByGuide(rest, guide) ==
  IF rest = {} THEN <<>>
  ELSE LET first == CHOOSE a \in rest :
                      \A b \in rest :
                        guide[a] > guide[b] \/ (guide[a] = guide[b] /\ a <= b)
       IN  <<first>> \o SortByGuide(rest \ {first}, guide)

\* The diamond without its rim: offsets with 0 < |kx| + |ky| < radius.
DiamondInside(idx, width, height, radius) ==
  {n \in Pixels(width, height) :
     LET d == Abs(XOf(n, width) - XOf(idx, width)) + Abs(YOf(n, width) - YOf(idx, width))
     IN  d > 0 /\ d < radius}

\* The diamond of pixel idx: in-image offsets with 0 < |kx| + |ky| <= radius.
Diamond(idx, width, height, radius) ==
  {n \in Pixels(width, height) :
     LET d == Abs(XOf(n, width) - XOf(idx, width)) + Abs(YOf(n, width) - YOf(idx, width))
     IN  d > 0 /\ d <= radius}

RECURSIVE IsolateWalk(_, _, _, _, _, _)
IsolateWalk(order, k, accepted, width, height, radius) ==
  IF k > Len(order) THEN accepted
  ELSE LET idx == order[k]
           blocked == \E n \in Diamond(idx, width, height, radius) : n \in accepted
       IN  IsolateWalk(order, k + 1,
                       IF blocked THEN accepted ELSE accepted \cup {idx},
                       width, height, radius)

isolateWhitePixelsAfterFirst(data, guide, width, height, radius) ==
  IF ~IsNaN(radius) /\ radius <= 0 THEN data
  ELSE LET order == SortByGuide({i \in DOMAIN data : data[i] # 0}, guide)
           kept == IsolateWalk(order, 2, {}, width, height, radius)
       IN  Stored([i \in DOMAIN data |-> IF i \in kept THEN 1 ELSE 0])

isolateWhitePixels(data, guide, width, height, radius) ==
  IF ~IsNaN(radius) /\ radius <= 0 THEN data
  ELSE LET order == SortByGuide({i \in DOMAIN data : data[i] # 0}, guide)
           kept == IsolateWalk(order, 1, {}, width, height, radius)
       IN  Stored([i \in DOMAIN data |-> IF i \in kept THEN 1 ELSE 0])

bayer8 ==
  << <<0, 48, 12, 60, 3, 51, 15, 63>>,
     <<32, 16, 44, 28, 35, 19, 47, 31>>,
     <<8, 56, 4, 52, 11, 59, 7, 55>>,
     <<40, 24, 36, 20, 43, 27, 39, 23>>,
     <<2, 50, 14, 62, 1, 49, 13, 61>>,
     <<34, 18, 46, 30, 33, 17, 45, 29>>,
     <<10, 58, 6, 54, 9, 57, 5, 53>>,
     <<42, 26, 38, 22, 41, 25, 37, 21>> >>

\* The ordered dither with the comparison turned round.
bayerDitherBelow(map, width, height, threshold) ==
  Stored([i \in Pixels(width, height) |->
    LET b == bayer8[(YOf(i, width) % 8) + 1][(XOf(i, width) % 8) + 1]
    IN  IF /\ ~IsNaN(map[i])
           /\ ~IsNaN(threshold)
           /\ 2 * map[i] < 2 * threshold + (b - 32) * 5625
        THEN 1 ELSE 0])

\* bias = (bayer8[y % 8][x % 8] / 64 - 0.5) * 0.18 = (b - 32) * 0.0028125; the
\* test map[i] > threshold + bias is taken doubled to stay in whole units.
bayerDither(map, width, height, threshold) ==
  Stored([i \in Pixels(width, height) |->
    LET b == bayer8[(YOf(i, width) % 8) + 1][(XOf(i, width) % 8) + 1]
    IN  IF /\ ~IsNaN(map[i])
           /\ ~IsNaN(threshold)
           /\ 2 * map[i] > 2 * threshold + (b - 32) * 5625
        THEN 1 ELSE 0])

\* err * (k / 16)
Share(err, k) == IF IsNaN(err) THEN NaN ELSE RoundDiv(err * k, 16)

\* Thresholding alone: no error is passed on.
floydDitherNoDiffusion(map, width, height, threshold) ==
  Stored([i \in Pixels(width, height) |-> IF Ge(map[i], threshold) THEN 1 ELSE 0])

RECURSIVE FloydScan(_, _, _, _, _, _)
FloydScan(i, work, out, width, height, threshold) ==
  IF i >= width * height THEN out
  ELSE LET x == XOf(i, width)
           y == YOf(i, width)
           old == work[i]
           nw == IF Ge(old, threshold) THEN 1 ELSE 0
           err == Sub(old, nw * ONE)
           w1 == IF x + 1 < width
                 THEN [work EXCEPT ![i + 1] = Add(@, Share(err, 7))] ELSE work
           w2 == IF y + 1 < height /\ x > 0
                 THEN [w1 EXCEPT ![i + width - 1] = Add(@, Share(err, 3))] ELSE w1
           w3 == IF y + 1 < height
                 THEN [w2 EXCEPT ![i + width] = Add(@, Share(err, 5))] ELSE w2
           w4 == IF y + 1 < height /\ x + 1 < width
                 THEN [w3 EXCEPT ![i + width + 1] = Add(@, Share(err, 1))] ELSE w3
       IN  FloydScan(i + 1, w4, [out EXCEPT ![i] = nw], width, height, threshold)

floydDither(map, width, height, threshold) ==
  FloydScan(0, map, Zeros(width, height), width, height, threshold)

\* The square window of pixel i, clipped to the image, and whether it is clipped.
Square(i, width, height, radius) ==
  {n \in Pixels(width, height) :
     /\ Abs(XOf(n, width) - XOf(i, width)) <= radius
     /\ Abs(YOf(n, width) - YOf(i, width)) <= radius}

SquareInside(i, width, height, radius) ==
  /\ XOf(i, width) - radius >= 0
  /\ XOf(i, width) + radius < width
  /\ YOf(i, width) - radius >= 0
  /\ YOf(i, width) + radius < height

dilate(src, width, height, radius) ==
  IF radius <= 0 THEN src
  ELSE Stored([i \in Pixels(width, height) |->
         IF \E n \in Square(i, width, height, radius) : src[n] # 0 THEN 1 ELSE 0])

erode(src, width, height, radius) ==
  IF radius <= 0 THEN src
  ELSE Stored([i \in Pixels(width, height) |->
         IF /\ SquareInside(i, width, height, radius)
            /\ \A n \in Square(i, width, height, radius) : src[n] # 0
         THEN 1 ELSE 0])

\* Flood over non-zero pixels (pruneComponents tests !data[next]).
RECURSIVE FloodOn(_, _, _, _)
FloodOn(seen, data, width, height) ==
  LET next == seen \cup {n \in UNION {Neighbours4(i, width, height) : i \in seen} :
                           data[n] # 0}
  IN  IF next = seen THEN seen ELSE FloodOn(next, data, width, height)

RECURSIVE PruneScan(_, _, _, _, _)
PruneScan(i, visited, data, width, height) ==
  IF i >= width * height THEN <<>>
  ELSE IF data[i] = 0 \/ i \in visited
    THEN PruneScan(i + 1, visited, data, width, height)
  ELSE LET comp == FloodOn({i}, data, width, height)
       IN  <<comp>> \o PruneScan(i + 1, visited \cup comp, data, width, height)

RankByAreaAscending(comps, k) ==
  Cardinality({j \in DOMAIN comps :
                 \/ Cardinality(comps[j]) < Cardinality(comps[k])
                 \/ (Cardinality(comps[j]) = Cardinality(comps[k]) /\ j < k)})

\* Position of component k after the stable sort by area, descending.
RankByArea(comps, k) ==
  Cardinality({j \in DOMAIN comps :
                 \/ Cardinality(comps[j]) > Cardinality(comps[k])
                 \/ (Cardinality(comps[j]) = Cardinality(comps[k]) /\ j < k)})

pruneComponents(data, width, height, minArea, maxCount) ==
  LET comps == PruneScan(0, {}, data, width, height)
      kept == {k \in DOMAIN comps :
                 /\ Ge(Cardinality(comps[k]), minArea)
                 /\ Lt(RankByArea(comps, k), maxCount)}
      px == UNION {comps[k] : k \in kept}
  IN  Stored([i \in Pixels(width, height) |-> IF i \in px THEN 1 ELSE 0])

\* The morphology and pruning both post-processing functions start with.
Morphology(binary, width, height, preset) ==
  IF Gt(preset.strokeThickness, 1)
  THEN LET d == dilate(binary, width, height, preset.strokeThickness - 1)
       IN  IF Lt(preset.spaceiness, 700000) THEN erode(d, width, height, 1) ELSE d
  ELSE IF Lt(preset.spaceiness, 700000)
    THEN dilate(erode(binary, width, height, 1), width, height, 1)
  ELSE binary

MinArea(preset) ==
  MathMax(1, RoundIntTimes(preset.componentMinArea,
                           Sub(ONE, Mul(preset.spaceiness, 700000))))

MaxCount(preset) ==
  MathMax(1000, RoundIntTimes(preset.componentMaxCount,
                              Add(ONE, Mul(preset.spaceiness, 250000))))

\* The copy of the stages above without the isolation step, but with the
\* opening of thin strokes left out.
applyPostProcessingNoIsolationNoOpening(binary, width, height, preset) ==
  pruneComponents(IF Gt(preset.strokeThickness, 1)
                  THEN Morphology(binary, width, height, preset)
                  ELSE binary,
                  width, height, MinArea(preset), MaxCount(preset))

\* The function repeats the morphology branch and the pruning limits of
\* applyPostProcessing in its own body and returns the pruned raster.
applyPostProcessingNoIsolation(binary, width, height, preset) ==
  LET thick == Gt(preset.strokeThickness, 1)
      roomy == ~Lt(preset.spaceiness, 700000)
      out == IF thick
             THEN IF roomy
                  THEN dilate(binary, width, height, preset.strokeThickness - 1)
                  ELSE erode(dilate(binary, width, height, preset.strokeThickness - 1),
                             width, height, 1)
             ELSE IF roomy THEN binary
             ELSE dilate(erode(binary, width, height, 1), width, height, 1)
      minArea == MathMax(1, RoundIntTimes(preset.componentMinArea,
                                          Sub(ONE, Mul(preset.spaceiness, 700000))))
      maxCount == MathMax(1000, RoundIntTimes(preset.componentMaxCount,
                                              Add(ONE, Mul(preset.spaceiness, 250000))))
  IN  pruneComponents(out, width, height, minArea, maxCount)

applyPostProcessing(binary, guide, width, height, preset) ==
  LET out == pruneComponents(Morphology(binary, width, height, preset), width, height,
                             MinArea(preset), MaxCount(preset))
  IN  IF preset.isolateWhites
      THEN isolateWhitePixels(out, guide, width, height, preset.isolationRadius)
      ELSE out

makeBinary(map, width, height, preset, threshold) ==
  IF preset.dither = "floyd"
  THEN floydDither(map, width, height, threshold)
  ELSE bayerDither(map, width, height, threshold)

(***************************************************************************)
(* Analysis stages: box blur, percentile normalization, Sobel, foreground   *)
(* mask.                                                                    *)
(***************************************************************************)
\* floor(sqrt(n)) by bisection.
RECURSIVE SqrtBisect(_, _, _)
SqrtBisect(n, lo, hi) ==
  IF lo >= hi THEN lo
  ELSE LET mid == (lo + hi + 1) \div 2
       IN  IF mid * mid <= n THEN SqrtBisect(n, mid, hi) ELSE SqrtBisect(n, lo, mid - 1)

ISqrt(n) == SqrtBisect(n, 0, 46340)

\* Math.hypot(a, b) for fixed-point a, b with a*a + b*b <= 20: to 1e-4.
Hypot(a, b) == ISqrt((a \div 100) * (a \div 100) + (b \div 100) * (b \div 100)) * 100

\* Reads outside the line mirrored back into it instead of clamped.
ClampIdxMirror(k, len) == Min(len - 1, Abs(k))

ClampIdx(k, len) == Min(len - 1, Max(0, k))

\* One line of a blur pass, as the rolling sum computes it: the line's k-th
\* element is src[base + k*stride]; the sum starts as the clamped window of
\* element 0 and then adds element x+radius+1 and removes element x-radius,
\* both clamped.
RECURSIVE WindowSum(_, _, _, _, _, _)
WindowSum(src, base, stride, len, k, radius) ==
  IF k > radius THEN 0
  ELSE src[base + ClampIdx(k, len) * stride]
       + WindowSum(src, base, stride, len, k + 1, radius)

RECURSIVE RollLine(_, _, _, _, _, _, _)
RollLine(src, base, stride, len, radius, x, sum) ==
  IF x >= len THEN <<>>
  ELSE LET removeX == Max(0, x - radius)
           addX == Min(len - 1, x + radius + 1)
       IN  <<RoundDiv(sum, 2 * radius + 1)>>
           \o RollLine(src, base, stride, len, radius, x + 1,
                       sum + src[base + addX * stride] - src[base + removeX * stride])

BlurLine(src, base, stride, len, radius) ==
  RollLine(src, base, stride, len, radius, 0,
           WindowSum(src, base, stride, len, 0 - radius, radius))

boxBlur(src, width, height, radius) ==
  IF IsNaN(radius) THEN Stored([i \in Pixels(width, height) |-> NaN])
  ELSE IF radius <= 0 THEN src
  ELSE LET rows == Stored([y \in 0 .. height - 1 |-> BlurLine(src, y * width, 1, width, radius)])
           tmp == Stored([i \in Pixels(width, height) |-> rows[YOf(i, width)][XOf(i, width) + 1]])
           cols == Stored([x \in 0 .. width - 1 |-> BlurLine(tmp, x, width, height, radius)])
       IN  Stored([i \in Pixels(width, height) |-> cols[XOf(i, width)][YOf(i, width) + 1]])

\* Math.min(255, Math.max(0, Math.round(v * 255)))
Bin(v) == IF v >= ONE THEN 255 ELSE IF v <= 0 THEN 0 ELSE RoundDiv(v * 255, ONE)

\* The first bin at which the cumulative histogram reaches n * p, else dflt;
\* NaN elements land in no bin.
PercentileBin(src, p, dflt) ==
  LET n == Cardinality(DOMAIN src)
      bins == {Bin(src[i]) : i \in {j \in DOMAIN src : ~IsNaN(src[j])}}
      acc(b) == Cardinality({i \in DOMAIN src : ~IsNaN(src[i]) /\ Bin(src[i]) <= b})
      reached == {b \in bins : acc(b) * (ONE \div 1000) >= n * (p \div 1000)}
  IN  IF reached = {} THEN dflt
      ELSE CHOOSE b \in reached : \A c \in reached : b <= c

\* out = clamp01((x - low) / (high - low)), low = lowBin/255,
\* high = max(low + 1/255, highBin/255).
normalizeByPercentile(src, pLow, pHigh) ==
  LET lowBin == PercentileBin(src, pLow, 0)
      highBin == PercentileBin(src, pHigh, 255)
      span == Max(lowBin + 1, highBin) - lowBin
  IN  Stored([i \in DOMAIN src |->
        IF IsNaN(src[i]) THEN NaN
        ELSE IF 255 * src[i] - lowBin * ONE >= span * ONE THEN ONE
        ELSE IF 255 * src[i] - lowBin * ONE <= 0 THEN 0
        ELSE RoundDiv(255 * src[i] - lowBin * ONE, span)])

sobel(src, width, height) ==
  LET interior == {i \in Pixels(width, height) :
                     /\ XOf(i, width) >= 1 /\ XOf(i, width) < width - 1
                     /\ YOf(i, width) >= 1 /\ YOf(i, width) < height - 1}
      gxi(i) == 0 - src[i - width - 1] - 2 * src[i - 1] - src[i + width - 1]
                + src[i - width + 1] + 2 * src[i + 1] + src[i + width + 1]
      gyi(i) == 0 - src[i - width - 1] - 2 * src[i - width] - src[i - width + 1]
                + src[i + width - 1] + 2 * src[i + width] + src[i + width + 1]
      gx == Stored([i \in Pixels(width, height) |-> IF i \in interior THEN gxi(i) ELSE 0])
      gy == Stored([i \in Pixels(width, height) |-> IF i \in interior THEN gyi(i) ELSE 0])
      m == Stored([i \in Pixels(width, height) |-> Hypot(gx[i], gy[i])])
      maxMag == CHOOSE v \in {EPS} \cup {m[i] : i \in Pixels(width, height)} :
                  \A i \in Pixels(width, height) : v >= m[i] /\ v >= EPS
  IN  [mag |-> Stored([i \in Pixels(width, height) |-> DivPos(m[i], maxMag)]),
       gx |-> gx, gy |-> gy]

\* 1 - hypot(x - cx, y - cy) / hypot(cx, cy), cx = width/2, cy = height/2.
CenterPrior(i, width, height) ==
  LET dx == 2 * XOf(i, width) - width
      dy == 2 * YOf(i, width) - height
      num == dx * dx + dy * dy
      den == width * width + height * height
  IN  ONE - ISqrt(((num * ONE) \div den) * 100) * 100

\* score[i] of estimateForegroundMask.
ForegroundScore(norm, edgeMag, width, height, centerBiasWeight) ==
  LET blurSmall == boxBlur(norm, width, height, 3)
      blurLarge == boxBlur(norm, width, height, 14)
      saliency == Stored([i \in Pixels(width, height) |->
                     clamp01(Mul(Abs(blurSmall[i] - blurLarge[i]), 1800000))])
  IN  Stored([i \in Pixels(width, height) |->
        clamp01(Add(Mul(480000, edgeMag[i]) + Mul(420000, saliency[i]),
                    Mul(centerBiasWeight, CenterPrior(i, width, height))))])

\* rawMask of estimateForegroundMask: score > thr, thr = thrBin / 255.
RawMask(score) ==
  LET thrBin == PercentileBin(score, 640000, 160)
  IN  Stored([i \in DOMAIN score |->
        IF ~IsNaN(score[i]) /\ score[i] * 255 > thrBin * ONE THEN 1 ELSE 0])

RatioFailedHigh(rawMask) ==
  LET white == Cardinality({i \in DOMAIN rawMask : rawMask[i] = 1})
      n == Cardinality(DOMAIN rawMask)
  IN  white * 100 > 86 * n

\* failed = ratio < 0.03 || ratio > 0.86, ratio = white / length
RatioFailed(rawMask) ==
  LET white == Cardinality({i \in DOMAIN rawMask : rawMask[i] = 1})
      n == Cardinality(DOMAIN rawMask)
  IN  white * 100 < 3 * n \/ white * 100 > 86 * n

MaskFromScoreSmooth(score, width, height) ==
  LET rawMask == RawMask(score)
  IN  IF RatioFailed(rawMask)
      THEN [mask |-> Stored([i \in DOMAIN score |-> ONE]), fallbackSegmentation |-> TRUE]
      ELSE [mask |-> boxBlur(Stored([i \in DOMAIN score |-> rawMask[i] * ONE]),
                             width, height, 2),
            fallbackSegmentation |-> FALSE]

MaskFromScore(score, width, height) ==
  LET rawMask == RawMask(score)
  IN  IF RatioFailed(rawMask)
      THEN [mask |-> Stored([i \in DOMAIN score |-> ONE]), fallbackSegmentation |-> TRUE]
      ELSE LET smoothMask == boxBlur(Stored([i \in DOMAIN score |-> rawMask[i] * ONE]),
                                     width, height, 2)
           IN  [mask |-> Stored([i \in DOMAIN score |->
                            IF smoothMask[i] > 420000 THEN ONE ELSE 0]),
                fallbackSegmentation |-> FALSE]

estimateForegroundMask(norm, edgeMag, width, height, centerBiasWeight) ==
  MaskFromScore(ForegroundScore(norm, edgeMag, width, height, centerBiasWeight),
                width, height)

\* The raw mask estimateForegroundMask thresholded for the bundle a.
RawMaskOf(a) ==
  RawMask(ForegroundScore(a.norm, a.sobelRes.mag, a.width, a.height, a.preset.centerBias))

(***************************************************************************)
(* Math.sin, Math.cos, Math.atan2, Math.exp, Math.pow                       *)
(***************************************************************************)
HalfPi == 1570796
Pi == 2 * HalfPi
TwoPi == 4 * HalfPi

\* sin(k * pi/32), k = 0 .. 16
SinTable ==
  <<0, 98017, 195090, 290285, 382683, 471397, 555570, 634393, 707107, 773010,
    831470, 881921, 923880, 956940, 980785, 995185, 1000000>>

\* sin on [0, pi/2], linear between table points.
SinQuarter(t) ==
  LET k == Min(15, (t * 16) \div HalfPi)
      frac == t * 16 - k * HalfPi
  IN  SinTable[k + 1] + Mul(SinTable[k + 2] - SinTable[k + 1], DivPos(frac, HalfPi))

MathSin(a) ==
  IF IsNaN(a) THEN NaN
  ELSE LET r == a % TwoPi
           q == Min(3, r \div HalfPi)
           t == r - q * HalfPi
       IN  CASE q = 0 -> SinQuarter(t)
             [] q = 1 -> SinQuarter(HalfPi - t)
             [] q = 2 -> 0 - SinQuarter(t)
             [] q = 3 -> 0 - SinQuarter(HalfPi - t)

MathCos(a) == IF IsNaN(a) THEN NaN ELSE MathSin(a + HalfPi)

\* atan on [0, 1]: (pi/4) z + 0.273 z (1 - z), within 0.004 rad.
Atan01(z) == Mul(785398, z) + Mul(Mul(273000, z), ONE - z)

MathAtan2(y, x) ==
  LET a == Abs(y)
      b == Abs(x)
      base == IF a = 0 /\ b = 0 THEN 0
              ELSE IF a <= b THEN Atan01(DivPos(a, b))
              ELSE HalfPi - Atan01(DivPos(b, a))
      half == IF x >= 0 THEN base ELSE Pi - base
  IN  IF y >= 0 THEN half ELSE 0 - half

\* exp(-k/8), k = 0 .. 64
ExpTable ==
  <<1000000, 882497, 778801, 687289, 606531, 535261, 472367, 416862, 367879,
    324652, 286505, 252840, 223130, 196912, 173774, 153355, 135335, 119433,
    105399, 93014, 82085, 72440, 63928, 56416, 49787, 43937, 38774, 34218,
    30197, 26649, 23518, 20754, 18316, 16163, 14264, 12588, 11109, 9804, 8652,
    7635, 6738, 5946, 5248, 4631, 4087, 3607, 3183, 2809, 2479, 2187, 1930,
    1704, 1503, 1327, 1171, 1033, 912, 805, 710, 627, 553, 488, 431, 380, 335>>

\* exp(-r), r >= 0, linear between table points; below exp(-8) it is 0.
ExpNeg(r) ==
  LET k == r \div 125000
      frac == r % 125000
  IN  IF k >= 64 THEN 0
      ELSE ExpTable[k + 1] - ((ExpTable[k + 1] - ExpTable[k + 2]) * (frac \div 125)) \div 1000

\* sqrt on [0, 1], to 1e-4.
Sqrt01(b) == ISqrt(b * 100) * 100

\* b^(k/4) for b in [0, 1]
RECURSIVE QuarterPow(_, _)
QuarterPow(b, k) ==
  IF k = 0 THEN ONE
  ELSE IF k >= 4 THEN Mul(b, QuarterPow(b, k - 4))
  ELSE IF k >= 2 THEN Mul(Sqrt01(b), QuarterPow(b, k - 2))
  ELSE Sqrt01(Sqrt01(b))

\* Math.pow(b, e) for b in [0, 1], e >= 0: linear in e between quarter powers.
MathPow(b, e) ==
  IF IsNaN(b) \/ IsNaN(e) THEN NaN
  ELSE LET k == e \div 250000
           frac == e % 250000
           lo == QuarterPow(b, k)
           hi == QuarterPow(b, k + 1)
       IN  IF frac = 0 THEN lo ELSE lo - Mul(lo - hi, frac * 4)

\* hashNoise(x, y) for x, y in 0 .. 7: the values the 32-bit mixing yields.
HashNoiseTable ==
  <<<<0, 491874, 16264, 336248, 32528, 272040, 441677, 429242>>,
    <<231730, 336138, 21279, 145147, 342497, 347459, 60971, 6827>>,
    <<463460, 116927, 375628, 390941, 203196, 179026, 169055, 236901>>,
    <<451527, 471656, 128012, 212697, 139097, 88739, 445232, 377936>>,
    <<285147, 90957, 488462, 266941, 145834, 203315, 189234, 38747>>,
    <<407874, 191177, 58525, 94906, 238648, 35487, 106483, 288915>>,
    <<39649, 295834, 316963, 75314, 195535, 55630, 484090, 428987>>,
    <<383576, 210854, 400056, 60724, 171276, 19027, 198211, 175371>>>>

hashNoise(x, y) == HashNoiseTable[y + 1][x + 1]

(***************************************************************************)
(* Light transfer                                                           *)
(***************************************************************************)
\* Mean of f over the rows y-rad .. y+rad that exist.
RowWindowMean(f, height, y, rad) ==
  LET rows == {yy \in 0 .. height - 1 : yy >= y - rad /\ yy <= y + rad}
      RECURSIVE Sum(_)
      Sum(S) == IF S = {} THEN 0
                ELSE LET yy == CHOOSE v \in S : TRUE IN f[yy] + Sum(S \ {yy})
  IN  Sum(rows) \div Max(1, Cardinality(rows))

\* sorted[k] of the values of f
KthSmallest(f, k) ==
  CHOOSE v \in {f[j] : j \in DOMAIN f} :
    /\ Cardinality({j \in DOMAIN f : f[j] < v}) <= k
    /\ Cardinality({j \in DOMAIN f : f[j] <= v}) > k

\* clamp01(a / max(EPS, b)) for a, b >= 0
ClampRatio(a, b) == IF a >= Max(EPS, b) THEN ONE ELSE DivPos(a, Max(EPS, b))

RowSum(f, width, y) ==
  LET RECURSIVE Sum(_)
      Sum(x) == IF x >= width THEN 0 ELSE f[y * width + x] + Sum(x + 1)
  IN  Sum(0)

\* The anchor pixel: the best-scoring pixel of the central crop, the first
\* such in scan order; the crop's centre point if the crop is empty.
AnchorIndex(norm, edgeMag, fgMask, detail, width, height) ==
  LET crop == {i \in Pixels(width, height) :
                 /\ XOf(i, width) >= (width * 15) \div 100
                 /\ XOf(i, width) < (width * 85) \div 100
                 /\ YOf(i, width) >= (height * 20) \div 100
                 /\ YOf(i, width) < (height * 90) \div 100}
      score(i) == Mul(fgMask[i], Mul(520000, edgeMag[i]) + Mul(480000, detail[i]))
  IN  IF crop = {}
      THEN ((height * 55) \div 100) * width + (width * 50) \div 100
      ELSE CHOOSE i \in crop :
             \A j \in crop : score(j) < score(i) \/ (score(j) = score(i) /\ i <= j)

\* rowGain from the locked tone: row energies, smoothed over 13 rows, against
\* their median.
RowGain(lockedTone, refTone, edgeMag, fgMask, width, height) ==
  The({Stored([y \in 0 .. height - 1 |->
         720000 + Mul(ClampRatio(KthSmallest(smoothEnergy, (height * 50) \div 100),
                                 smoothEnergy[y]), 560000)])
         : smoothEnergy \in
             {The({Stored([y \in 0 .. height - 1 |-> RowWindowMean(rowEnergy, height, y, 6)])
                     : rowEnergy \in
                         {The({Stored([y \in 0 .. height - 1 |->
                                 RowSum(energy, width, y) \div Max(1, width)])
                                 : energy \in
                                     {Stored([i \in Pixels(width, height) |->
                                        Mul(fgMask[i],
                                            Mul(550000, edgeMag[i])
                                            + Mul(450000, Abs(lockedTone[i] - refTone)))])}})}})}})

buildLightTransfer(norm, edgeMag, fgMask, width, height) ==
  The({The({The({The({[lockedTone |-> lockedTone,
                       rowGain |-> RowGain(lockedTone, norm[bestIdx], edgeMag, fgMask,
                                           width, height)]
                        : lockedTone \in
                            {Stored([i \in Pixels(width, height) |->
                               clamp01(norm[bestIdx]
                                       + Mul(norm[i] - localLight[i],
                                             1100000 + Mul(detail[bestIdx], 1600000)))])}})
                   : bestIdx \in {AnchorIndex(norm, edgeMag, fgMask, detail, width, height)}})
              : detail \in {Stored([i \in Pixels(width, height) |->
                                      Abs(norm[i] - localLight[i])])}})
         : localLight \in {boxBlur(norm, width, height,
                                    Max(10, RoundIntTimes(Min(width, height), 60000)))}})

(***************************************************************************)
(* Ink map                                                                  *)
(***************************************************************************)
rebalanceInkRows(map, fgMask, width, height) ==
  LET counted(y) == {x \in 0 .. width - 1 : ~(fgMask[y * width + x] < 150000)}
      rowCount == Stored([y \in 0 .. height - 1 |-> Cardinality(counted(y))])
      rowMean == Stored([y \in 0 .. height - 1 |->
                    IF rowCount[y] = 0 THEN 0
                    ELSE RowSum(Stored([i \in Pixels(width, height) |->
                                   IF XOf(i, width) \in counted(y) THEN map[i] ELSE 0]),
                                width, y) \div rowCount[y]])
      active == {y \in 0 .. height - 1 : rowCount[y] * 100 > width * 8}
      n == Cardinality(active)
      target == KthSmallest([y \in active |-> rowMean[y]], (n * 60) \div 100)
      gain(y) == IF ~(y \in active) THEN ONE
                 ELSE IF target >= 3 * Max(EPS, rowMean[y]) THEN 3 * ONE
                 ELSE DivPos(target, Max(EPS, rowMean[y]))
      gains == Stored([y \in 0 .. height - 1 |->
                  Mul(clamp01(Div(gain(y) - 400000, 2600000)), 2600000) + 400000])
      smooth == Stored([y \in 0 .. height - 1 |-> RowWindowMean(gains, height, y, 10)])
  IN  IF \E i \in Pixels(width, height) : IsNaN(map[i])
      THEN Stored([i \in Pixels(width, height) |-> NaN])
      ELSE IF n < Max(8, (height * 10) \div 100) THEN map
      ELSE Stored([i \in Pixels(width, height) |-> clamp01(Mul(map[i], smooth[YOf(i, width)]))])

\* n / d truncated toward zero
TruncDiv(n, d) == IF n < 0 THEN 0 - ((0 - n) \div d) ELSE n \div d

\* The value of ink[i] before smoothing; c holds buildInkMap's arguments and
\* the rasters it computed before the pixel loop.
InkValue(i, c) ==
  LET lockedTone == c.lockedTone
      rowGain == c.rowGain
      sobelRes == c.sobelRes
      fgMask == c.fgMask
      preset == c.preset
      width == c.width
      height == c.height
      frameOpts == c.frameOpts
      detail == c.detail
      edgeNear == c.edgeNear
      edgeMid == c.edgeMid
      edgeFar == c.edgeFar
      x == XOf(i, width)
      y == YOf(i, width)
      grain == MathMax(1, preset.grainScale)
      dx == Div(x * ONE - width * 500000, Max(ONE, width * 340000))
      dy == Div(y * ONE - height * 580000, Max(ONE, height * 340000))
      yNorm == (y * ONE) \div Max(1, height - 1)
  IN  The({The({The({
        LET texture == clamp01(Add(Mul(750000, stripe),
                                   Mul(noise, Add(320000, Mul(frameOpts.jitter, 120000)))))
            band == MathAbs(MathSin(Mul(Mul(wavePhase, Pi), preset.bandFrequency)))
            ghostBand == Mul(MathPow(band, 2200000), MathPow(flow, 900000))
            stippleKeep == IF Gt(noise, Mul(preset.spaceiness, 720000)) THEN ONE ELSE 450000
            lumaGate == Add(200000, Mul(800000, darkPrior))
            centerGate == Add(Sub(ONE, preset.centerFocus),
                              Mul(preset.centerFocus,
                                  clamp01(350000 + Mul(650000, centerField))))
            topFade == Sub(ONE, Mul(preset.topSuppression,
                                    clamp01(Div(280000 - yNorm, 280000))))
            v == Add(Add(Add(Add(Mul(preset.edgeWeight, edge), Mul(preset.fillWeight, fill)),
                             Mul(Mul(280000, detail[i]), fgMask[i])),
                         Mul(Mul(preset.textureWeight, texture), fgMask[i])),
                     Mul(Mul(preset.ghostWeight, ghostBand), fgMask[i]))
            flowBoost == Add(ONE, Mul(Mul(frameOpts.flowStrength, Sub(flow, 450000)),
                                      300000))
            gate == Mul(Mul(Mul(Mul(Mul(Mul(Add(300000, Mul(700000, bgKill)), lumaGate),
                                        centerGate), topFade), rowGain[y]), stippleKeep),
                        flowBoost)
        IN  clamp01(Mul(v, gate))
          : stripe \in
              {Add(Mul(MathSin(Add(Add(Mul(oriented, 2200000), Mul(angle, 2600000)),
                                   Mul(frameOpts.phase, 700000))),
                       500000), 500000)},
            wavePhase \in
              {Add(Add(Add(Mul(lockedTone[i], 1600000), Mul(flow, 2400000)),
                       Mul(oriented, 80000)), frameOpts.phase)}})
          : oriented \in
              {IF IsNaN(grain) THEN NaN
               ELSE TruncDiv(x * MathCos(angle) + y * MathSin(angle), grain)}})
          : edge \in {MathPow(sobelRes.mag[i], preset.edgeGamma)},
            fill \in {Mul(MathPow(lockedTone[i], preset.fillGamma), fgMask[i])},
            angle \in {MathAtan2(sobelRes.gy[i] + EPS, sobelRes.gx[i] + EPS)},
            noise \in {hashNoise(x, y)},
            flow \in {clamp01(Add(Add(Mul(350000, edgeNear[i]), Mul(350000, edgeMid[i])),
                                  Mul(300000, edgeFar[i])))},
            bgKill \in {MathPow(clamp01(fgMask[i]),
                                Add(800000, preset.backgroundSuppression))},
            darkPrior \in {MathPow(clamp01(ONE - lockedTone[i]),
                                   Add(800000, preset.lumaSuppression))},
            centerField \in {ExpNeg(Mul(dx, dx) + Mul(dy, dy))}})

\* Math.max(lo, Math.round(v)) for a fixed-point v
MaxRound(lo, v) == IF IsNaN(v) THEN NaN ELSE Max(lo, RoundDiv(v, ONE))

buildInkMap(norm, lockedTone, rowGain, sobelRes, fgMask, preset, width, height, frame) ==
  normalizeByPercentile(
    rebalanceInkRows(
      boxBlur(
        The({Stored([i \in Pixels(width, height) |-> InkValue(i, c)])
               : c \in
                   {[lockedTone |-> lockedTone, rowGain |-> rowGain, sobelRes |-> sobelRes,
                     fgMask |-> fgMask, preset |-> preset, width |-> width,
                     height |-> height, frameOpts |-> resolveFrameOptions(frame),
                     detail |-> The({Stored([i \in Pixels(width, height) |->
                                       Abs(norm[i] - smooth[i])])
                                       : smooth \in {boxBlur(norm, width, height, 2)}}),
                     edgeNear |-> boxBlur(sobelRes.mag, width, height, 1),
                     edgeMid |-> boxBlur(sobelRes.mag, width, height,
                                         MathMax(2, RoundIntTimes(preset.grainScale,
                                                                  500000))),
                     edgeFar |-> boxBlur(sobelRes.mag, width, height,
                                         MathMax(4, RoundIntTimes(preset.grainScale,
                                                                  1500000)))]}}),
        width, height, MaxRound(0, preset.smoothing)),
      fgMask, width, height),
    10000, 990000)

(***************************************************************************)
(* analyzeImage                                                             *)
(***************************************************************************)
\* toGray: rgb is the decoded raster, one <<r, g, b>> byte triple per pixel.
toGray(rgb, width, height) ==
  Stored([i \in Pixels(width, height) |->
    clamp01(RoundDiv(299000 * rgb[i][1] + 587000 * rgb[i][2] + 114000 * rgb[i][3], 255))])

Ln2 == 693147

\* ln(1 + j/16), j = 0 .. 16
LnTable ==
  <<0, 60625, 117783, 171850, 223144, 271934, 318454, 362905, 405465, 446287, 485508, 523248, 559616, 594707, 628609, 661398, 693147>>

RECURSIVE Log2Floor(_)
Log2Floor(v) == IF v < 2 * ONE THEN 0 ELSE 1 + Log2Floor(v \div 2)

RECURSIVE Pow2(_)
Pow2(k) == IF k = 0 THEN 1 ELSE 2 * Pow2(k - 1)

\* Math.log1p(u), u >= 0: 1 + u = m * 2^k with m in [1, 2), ln m linear
\* between table points.
MathLog1p(u) ==
  LET k == Log2Floor(ONE + u)
      m == (ONE + u) \div Pow2(k)
      j == Min(15, ((m - ONE) * 16) \div ONE)
      frac == (m - ONE) * 16 - j * ONE
  IN  k * Ln2 + LnTable[j + 1] + Mul(LnTable[j + 2] - LnTable[j + 1], frac)

illuminationNormalize(gray, width, height) ==
  LET baseRadius == Max(6, (Min(width, height) * 3) \div 100)
      low == boxBlur(gray, width, height, baseRadius)
      out == Stored([i \in Pixels(width, height) |->
               MathLog1p(Mul(DivPos(gray[i], low[i] + EPS), 1500000))])
      normalized == normalizeByPercentile(normalizeByPercentile(out, 10000, 990000),
                                          20000, 980000)
      local == boxBlur(normalized, width, height, 2)
      mixed == Stored([i \in Pixels(width, height) |->
                 clamp01(Mul(720000, normalized[i])
                         + Mul(280000, normalized[i] - local[i] + 500000))])
  IN  normalizeByPercentile(mixed, 10000, 990000)

\* The AnalysisBundle analyzeImage builds once the raster is decoded; preset
\* is the record it resolved on entry.
analyzeImage(rgb, width, height, preset) ==
  The({The({The({[width |-> width, height |-> height, preset |-> preset, norm |-> norm,
                  sobelRes |-> sobelRes, mask |-> fg.mask,
                  lightTransfer |-> buildLightTransfer(norm, sobelRes.mag, fg.mask,
                                                       width, height),
                  fallbackSegmentation |-> fg.fallbackSegmentation]
                   : fg \in {estimateForegroundMask(norm, sobelRes.mag, width, height,
                                                    preset.centerBias)}})
              : sobelRes \in {sobel(norm, width, height)}})
         : norm \in {illuminationNormalize(toGray(rgb, width, height), width, height)}})

(***************************************************************************)
(* autoTuneRescue's boosted map and one auto-tune iteration.                *)
(***************************************************************************)
\* boosted[i] = clamp01(pow(normalizeByPercentile(inkMap, 0.005, 0.985)[i], 0.74) * 1.35)
BoostedMap(inkMap) ==
  LET boosted == normalizeByPercentile(inkMap, 5000, 985000)
  IN  Stored([i \in DOMAIN boosted |-> clamp01(Mul(MathPow(boosted[i], 740000), 1350000))])

MaxIterations == 8

\* Math.floor(height * 0.28)
TopLimit(height) == (height * 28) \div 100

CoverageStarvedNever(isolated, width, height, preset) == FALSE

\* coverageStarved: the isolated raster is below the preset's coverage floor.
CoverageStarved(isolated, width, height, preset) ==
  /\ Lt(computeBinaryStats(width, height, isolated), preset.minWhiteCoverageFloor)
  /\ preset.isolateWhites

\* The composite cost of a post-processed raster with the given statistics.
Cost(post, coverage, count, align, width, height, preset) ==
  LET topLimit == TopLimit(height)
      topWhite == Cardinality({i \in DOMAIN post : post[i] # 0 /\ YOf(i, width) < topLimit})
      lowWhite == Cardinality({i \in DOMAIN post : post[i] # 0 /\ YOf(i, width) >= topLimit})
      topDensity == (topWhite * ONE) \div Max(1, topLimit * width)
      lowDensity == (lowWhite * ONE) \div Max(1, (height - topLimit) * width)
      coverageLoss == Div(MathAbs(Sub(coverage, preset.whiteCoverageTarget)),
                          MathMax(preset.coverageTolerance, 10000))
      componentPenalty ==
        IF IsNaN(preset.componentMaxCount) THEN NaN
        ELSE (Max(0, count - preset.componentMaxCount) * ONE)
               \div Max(1, preset.componentMaxCount)
      sparsePenalty == IF count = 0 THEN 2 * ONE ELSE 0
      edgePenalty == Mul(Max(0, 280000 - align), 1400000)
      topBiasPenalty == Max(0, topDensity - Mul(lowDensity, 1150000)) * 18
  IN  Add(Add(coverageLoss, componentPenalty),
          sparsePenalty + edgePenalty + topBiasPenalty)

\* The statistics and cost of the raster an iteration settled on.
Measured(raw, starved, post, edgeMap, width, height, preset) ==
  The({[post |-> post, raw |-> raw, starved |-> starved, coverage |-> m.coverage,
        cc |-> m.cc, align |-> m.align,
        cost |-> Cost(post, m.coverage, m.cc.count, m.align, width, height, preset)]
         : m \in {[coverage |-> computeBinaryStats(width, height, post),
                   cc |-> connectedComponents(width, height, post),
                   align |-> edgeAlignment(post, edgeMap)]}})

\* The loop body with the statistics of a starved iteration still taken from
\* the isolated raster although the no-isolation raster is kept.
IterationStale(map, edgeMap, width, height, preset, threshold) ==
  The({The({The({[Measured(raw, starved, isolated, edgeMap, width, height, preset)
                    EXCEPT !.post = IF starved
                                    THEN applyPostProcessingNoIsolation(raw, width,
                                                                        height, preset)
                                    ELSE isolated]
                   : starved \in {CoverageStarved(isolated, width, height, preset)}})
              : isolated \in {applyPostProcessing(raw, map, width, height, preset)}})
         : raw \in {makeBinary(map, width, height, preset, threshold)}})

\* What one pass of the loop body computes from (map, threshold): the
\* post-processed raster, its statistics and the composite cost.
Iteration(map, edgeMap, width, height, preset, threshold) ==
  The({The({The({The({Measured(raw, starved, post, edgeMap, width, height, preset)
                        : post \in {IF starved
                                    THEN applyPostProcessingNoIsolation(raw, width,
                                                                        height, preset)
                                    ELSE isolated}})
                   : starved \in {CoverageStarved(isolated, width, height, preset)}})
              : isolated \in {applyPostProcessing(raw, map, width, height, preset)}})
         : raw \in {makeBinary(map, width, height, preset, threshold)}})

(***************************************************************************)
(* The state machine.  One decoded upload is analysed once                  *)
(* (analyzeImage) and rendered by each request r with its frame             *)
(* (renderFrameFromAnalysis); a request without a frame is transformImage.  *)
(* Code between two awaits runs to completion: `running` is the request     *)
(* whose synchronous render section is executing, 0 if none, and the        *)
(* locals of that section are the variables from inkMap to tuned.           *)
(***************************************************************************)
VARIABLES
  input,        \* [rgb, width, height, presetId]: decoded raster and options
  frame,        \* frame[r]: the MotionFrameOptions of request r
  apc,          \* analyzeImage: "idle" (not called), "call", "decoding", "done"
  preset,       \* analyzeImage's preset, <<>> before it is resolved
  analysis,     \* <<bundle>> once analyzeImage has returned, else <<>>
  rpc,          \* rpc[r]: "waiting", "rendering", "encoding", "done"
  running,      \* request inside its synchronous render section, or 0
  stage,        \* "idle", "loop" (inside autoTune's for), "tuned"
  pass,         \* "primary" (autoTune) or "rescue" (autoTuneRescue)
  inkMap,       \* renderFrameFromAnalysis's inkMap
  map,          \* autoTune's inkMap argument (inkMap, or the boosted map)
  iter, threshold, step, bestData, bestCost, bestMetrics,
  tuned,        \* <<[binary, metrics]>> once a loop has returned
  trace,        \* history: what each iteration of the current loop computed
  pending,      \* pending[r]: raw buffer and metrics held across the PNG await
  result,       \* result[r]: <<TransformResult>> once returned
  http,         \* the POST being served: its form, position and response
  unit          \* a call sequence on one binarizer function alone, else <<>>

vars == <<input, frame, apc, preset, analysis, rpc, running, stage, pass, inkMap, map,
          iter, threshold, step, bestData, bestCost, bestMetrics, tuned, trace,
          pending, result, http, unit>>

loopVars == <<iter, threshold, step, bestData, bestCost, bestMetrics, trace>>
callVars == <<input, frame, apc, preset, analysis, http, unit>>

Requests == DOMAIN rpc

\* autoTune's locals on entry.
PlaceholderMetrics(fallbackSegmentation) ==
  [whiteRatio |-> 0, componentCount |-> 0, meanComponentArea |-> 0,
   maxComponentArea |-> 0, edgeAlignmentScore |-> 0,
   fallbackSegmentation |-> fallbackSegmentation, tunedIterations |-> 0]

\* The loop's start with twice the first step.
EnterLoopWideStep(bundle) ==
  /\ iter' = 1
  /\ threshold' = Add(340000, Mul(bundle.preset.spaceiness, 40000))
  /\ step' = 320000
  /\ bestData' = Zeros(bundle.width, bundle.height)
  /\ bestCost' = Infinity
  /\ bestMetrics' = PlaceholderMetrics(bundle.fallbackSegmentation)
  /\ trace' = <<>>
  /\ stage' = "loop"

EnterLoopKeepStep(bundle) ==
  /\ iter' = 1
  /\ threshold' = Add(340000, Mul(bundle.preset.spaceiness, 40000))
  /\ step' = IF stage = "tuned" THEN step ELSE 160000
  /\ bestData' = Zeros(bundle.width, bundle.height)
  /\ bestCost' = Infinity
  /\ bestMetrics' = PlaceholderMetrics(bundle.fallbackSegmentation)
  /\ trace' = <<>>
  /\ stage' = "loop"

EnterLoop(bundle) ==
  /\ iter' = 1
  /\ threshold' = Add(340000, Mul(bundle.preset.spaceiness, 40000))
  /\ step' = 160000
  /\ bestData' = Zeros(bundle.width, bundle.height)
  /\ bestCost' = Infinity
  /\ bestMetrics' = PlaceholderMetrics(bundle.fallbackSegmentation)
  /\ trace' = <<>>
  /\ stage' = "loop"

\* analyzeImage up to its await: the preset is resolved before the decode.
AnalyzeCall ==
  /\ apc = "call"
  /\ preset' = <<resolvePreset(input.presetId)>>
  /\ apc' = "decoding"
  /\ UNCHANGED <<input, frame, analysis, rpc, running, stage, pass, inkMap, map, tuned,
                 pending, result, http, unit>>
  /\ UNCHANGED loopVars

\* analyzeImage after the decode: the bundle is built and returned.
AnalyzeDecoded ==
  /\ apc = "decoding"
  /\ running = 0
  /\ analysis' = <<analyzeImage(input.rgb, input.width, input.height, preset[1])>>
  /\ apc' = "done"
  /\ UNCHANGED <<input, frame, preset, rpc, running, stage, pass, inkMap, map, tuned,
                 pending, result, http, unit>>
  /\ UNCHANGED loopVars

RenderCallInPlace(r) ==
  /\ rpc[r] = "waiting"
  /\ analysis # <<>>
  /\ running = 0
  /\ \E a \in {analysis[1]} :
       \E ink \in {buildInkMap(a.norm, a.lightTransfer.lockedTone,
                                a.lightTransfer.rowGain, a.sobelRes, a.mask, a.preset,
                                a.width, a.height, frame[r])} :
         /\ inkMap' = ink
         /\ map' = ink
         /\ EnterLoop(a)
         /\ analysis' = <<[a EXCEPT !.mask = ink]>>
  /\ running' = r
  /\ rpc' = [rpc EXCEPT ![r] = "rendering"]
  /\ pass' = "primary"
  /\ UNCHANGED <<tuned, pending, result>>
  /\ UNCHANGED <<input, frame, apc, preset, http, unit>>

\* renderFrameFromAnalysis(analysis, frame[r]) up to the first loop test:
\* the ink map is built and autoTune is entered.
RenderCall(r) ==
  /\ rpc[r] = "waiting"
  /\ analysis # <<>>
  /\ running = 0
  /\ \E a \in {analysis[1]} :
       \E ink \in {buildInkMap(a.norm, a.lightTransfer.lockedTone,
                                a.lightTransfer.rowGain, a.sobelRes, a.mask, a.preset,
                                a.width, a.height, frame[r])} :
         /\ inkMap' = ink
         /\ map' = ink
         /\ EnterLoop(a)
  /\ running' = r
  /\ rpc' = [rpc EXCEPT ![r] = "rendering"]
  /\ pass' = "primary"
  /\ UNCHANGED <<tuned, pending, result>>
  /\ UNCHANGED callVars

\* One iteration of autoTune's for loop.
TuneIter ==
  /\ stage = "loop"
  /\ iter <= MaxIterations
  /\ \E a \in {analysis[1]} :
       \E it \in {Iteration(map, a.sobelRes.mag, a.width, a.height, a.preset, threshold)} :
         \E better \in {Lt(it.cost, bestCost)} :
           /\ bestCost' = IF better THEN it.cost ELSE bestCost
           /\ bestData' = IF better THEN it.post ELSE bestData
           /\ bestMetrics' =
                IF better
                THEN [whiteRatio |-> it.coverage, componentCount |-> it.cc.count,
                      meanComponentArea |-> it.cc.meanArea,
                      maxComponentArea |-> it.cc.maxArea,
                      edgeAlignmentScore |-> it.align,
                      fallbackSegmentation |-> a.fallbackSegmentation,
                      tunedIterations |-> iter]
                ELSE bestMetrics
           /\ threshold' = clamp01(IF Gt(it.coverage, a.preset.whiteCoverageTarget)
                                   THEN Add(threshold, step)
                                   ELSE Sub(threshold, step))
           /\ trace' = Append(trace, [iter |-> iter, threshold |-> threshold,
                                      step |-> step, cost |-> it.cost, post |-> it.post,
                                      coverage |-> it.coverage, starved |-> it.starved,
                                      count |-> it.cc.count, meanArea |-> it.cc.meanArea,
                                      maxArea |-> it.cc.maxArea, align |-> it.align])
  /\ step' = Mul(step, 620000)
  /\ iter' = iter + 1
  /\ UNCHANGED <<rpc, running, stage, pass, inkMap, map, tuned, pending, result>>
  /\ UNCHANGED callVars

ReturnedMetricsOfBest(best, iterAtExit) == best

\* { ...bestMetrics, tunedIterations: iter - 1 }
ReturnedMetrics(best, iterAtExit) == [best EXCEPT !.tunedIterations = iterAtExit - 1]

\* autoTune's return: the best raster, and the best metrics with
\* tunedIterations overwritten.
TuneReturn ==
  /\ stage = "loop"
  /\ iter > MaxIterations
  /\ tuned' = <<[binary |-> [width |-> analysis[1].width, height |-> analysis[1].height,
                             data |-> bestData],
                 metrics |-> ReturnedMetrics(bestMetrics, iter)]>>
  /\ stage' = "tuned"
  /\ UNCHANGED <<rpc, running, pass, inkMap, map, pending, result>>
  /\ UNCHANGED loopVars
  /\ UNCHANGED callVars

NeedsRescueAtFloor(metrics, p) == Lt(metrics.whiteRatio, p.minWhiteCoverageFloor)

\* tuned.metrics.whiteRatio < preset.minWhiteCoverageFloor * 0.9
NeedsRescue(metrics, p) == Lt(metrics.whiteRatio, Mul(p.minWhiteCoverageFloor, 900000))

\* The rescue branch with the boost written into the ink map it was given.
RescueInPlace ==
  /\ stage = "tuned"
  /\ pass = "primary"
  /\ NeedsRescue(tuned[1].metrics, analysis[1].preset)
  /\ map' = BoostedMap(inkMap)
  /\ inkMap' = map'
  /\ EnterLoop(analysis[1])
  /\ pass' = "rescue"
  /\ UNCHANGED <<rpc, running, tuned, pending, result>>
  /\ UNCHANGED callVars

\* The rescue branch: autoTuneRescue boosts the ink map and re-enters autoTune.
Rescue ==
  /\ stage = "tuned"
  /\ pass = "primary"
  /\ NeedsRescue(tuned[1].metrics, analysis[1].preset)
  /\ map' = BoostedMap(inkMap)
  /\ EnterLoop(analysis[1])
  /\ pass' = "rescue"
  /\ UNCHANGED <<rpc, running, inkMap, tuned, pending, result>>
  /\ UNCHANGED callVars

RawBufferCopy(width, height, data) ==
  Stored([i \in Pixels(width, height) |-> data[i]])

\* raw[i] = tuned.binary.data[i] ? 255 : 0 on Buffer.alloc(width * height)
RawBuffer(width, height, data) ==
  Stored([i \in Pixels(width, height) |-> IF data[i] # 0 THEN 255 ELSE 0])

\* The raw buffer is filled and handed to the PNG encoder; the call awaits it.
Emit ==
  /\ stage = "tuned"
  /\ pass = "rescue" \/ ~NeedsRescue(tuned[1].metrics, analysis[1].preset)
  /\ pending' = [pending EXCEPT ![running] =
                   <<[raw |-> RawBuffer(analysis[1].width, analysis[1].height,
                                        tuned[1].binary.data),
                      metrics |-> tuned[1].metrics, pass |-> pass]>>]
  /\ rpc' = [rpc EXCEPT ![running] = "encoding"]
  /\ running' = 0
  /\ stage' = "idle"
  /\ pass' = "primary"
  /\ inkMap' = <<>>
  /\ map' = <<>>
  /\ tuned' = <<>>
  /\ iter' = 0
  /\ threshold' = 0
  /\ step' = 0
  /\ bestData' = <<>>
  /\ bestCost' = Infinity
  /\ bestMetrics' = PlaceholderMetrics(FALSE)
  /\ trace' = <<>>
  /\ UNCHANGED result
  /\ UNCHANGED callVars

\* The PNG: 8-bit single-channel scanlines of the raw buffer.
PngEncode(raw, width, height) ==
  [width |-> width, height |-> height, channels |-> 1,
   rows |-> [y \in 1 .. height |-> [x \in 1 .. width |-> raw[(y - 1) * width + x - 1]]]]

\* The encoder resolves and renderFrameFromAnalysis returns.
Encoded(r) ==
  /\ rpc[r] = "encoding"
  /\ running = 0
  /\ result' = [result EXCEPT ![r] =
                  <<[png |-> PngEncode(pending[r][1].raw, analysis[1].width,
                                       analysis[1].height),
                     width |-> analysis[1].width, height |-> analysis[1].height,
                     metrics |-> pending[r][1].metrics,
                     preset |-> analysis[1].preset]>>]
  /\ rpc' = [rpc EXCEPT ![r] = "done"]
  /\ UNCHANGED <<running, stage, pass, inkMap, map, tuned, pending>>
  /\ UNCHANGED loopVars
  /\ UNCHANGED callVars

(***************************************************************************)
(* The HTTP route: POST /api/transform.                                     *)
(***************************************************************************)
\* No POST is being served: the core is called directly.
NoRequest ==
  [pc |-> "none", form |-> [image |-> [kind |-> "absent"], presetId |-> <<>>],
   response |-> <<>>]

\* (form.get('presetId') as PresetId) || 'neon-contour': an absent field is
\* null and an empty one is '', both falsy.
FormPresetId(form) ==
  IF form.presetId = <<>> \/ form.presetId[1] = "" THEN "neon-contour"
  ELSE form.presetId[1]

\* POST from the resolved form data to its first return or its next await:
\* the file check, then the preset check !PRESETS[presetId].
Post ==
  /\ http.pc = "received"
  /\ http' =
       IF http.form.image.kind # "file"
       THEN [http EXCEPT !.pc = "responded",
                         !.response = <<[status |-> 400, error |-> "Missing image file"]>>]
       ELSE IF PresetsGet(FormPresetId(http.form)).kind = "undefined"
         THEN [http EXCEPT !.pc = "responded",
                           !.response = <<[status |-> 400, error |-> "Unknown preset"]>>]
       ELSE [http EXCEPT !.pc = "reading"]
  /\ UNCHANGED <<input, frame, apc, preset, analysis, rpc, running, stage, pass, inkMap,
                 map, tuned, pending, result, unit>>
  /\ UNCHANGED loopVars

\* The file's bytes have arrived: transformImage(bytes, { presetId }) is called.
PostTransform ==
  /\ http.pc = "reading"
  /\ apc = "idle"
  /\ input' = [rgb |-> http.form.image.rgb, width |-> http.form.image.width,
               height |-> http.form.image.height, presetId |-> FormPresetId(http.form)]
  /\ apc' = "call"
  /\ http' = [http EXCEPT !.pc = "transforming"]
  /\ UNCHANGED <<frame, preset, analysis, rpc, running, stage, pass, inkMap, map, tuned,
                 pending, result, unit>>
  /\ UNCHANGED loopVars

\* transformImage has returned: the JSON response is sent.
PostRespond ==
  /\ http.pc = "transforming"
  /\ result[1] # <<>>
  /\ http' = [http EXCEPT
                !.pc = "responded",
                !.response = <<[status |-> 200, width |-> result[1][1].width,
                                height |-> result[1][1].height,
                                metrics |-> result[1][1].metrics,
                                preset |-> result[1][1].preset.id]>>]
  /\ UNCHANGED <<input, frame, apc, preset, analysis, rpc, running, stage, pass, inkMap,
                 map, tuned, pending, result, unit>>
  /\ UNCHANGED loopVars

(***************************************************************************)
(* Inputs                                                                   *)
(***************************************************************************)
MaxLit == 1

Black == <<0, 0, 0>>
White == <<255, 255, 255>>

\* Decoded rasters: black with at most MaxLit white pixels.
Rasters(width, height) ==
  {[i \in Pixels(width, height) |-> IF i \in S THEN White ELSE Black] :
     S \in {T \in SUBSET Pixels(width, height) : Cardinality(T) <= MaxLit}}

Dims == {<<3, 3>>, <<1, 8>>}

Inputs(ids) ==
  UNION {[rgb : Rasters(d[1], d[2]), width : {d[1]}, height : {d[2]}, presetId : ids] :
           d \in Dims}

\* presetId values a caller of the core can pass: the five names, a name the
\* table lacks, and a name Object.prototype has.
CorePresetIds == PresetIds \cup {"sepia", "constructor"}

InitCall(ins, frames, posts, called, units) ==
  /\ input \in ins
  /\ frame \in frames
  /\ http \in posts
  /\ unit \in units
  /\ apc = called
  /\ preset = <<>>
  /\ analysis = <<>>
  /\ rpc = [r \in DOMAIN frame |-> "waiting"]
  /\ running = 0
  /\ stage = "idle"
  /\ pass = "primary"
  /\ inkMap = <<>>
  /\ map = <<>>
  /\ tuned = <<>>
  /\ iter = 0
  /\ threshold = 0
  /\ step = 0
  /\ bestData = <<>>
  /\ bestCost = Infinity
  /\ bestMetrics = PlaceholderMetrics(FALSE)
  /\ trace = <<>>
  /\ pending = [r \in DOMAIN frame |-> <<>>]
  /\ result = [r \in DOMAIN frame |-> <<>>]

\* transformImage(input, options): one request, no frame.
Init == InitCall(Inputs(CorePresetIds), {<<NoFrame>>}, {NoRequest}, "call", {<<>>})

Next ==
  \/ AnalyzeCall
  \/ AnalyzeDecoded
  \/ \E r \in Requests : RenderCall(r)
  \/ TuneIter
  \/ TuneReturn
  \/ Rescue
  \/ Emit
  \/ \E r \in Requests : Encoded(r)

Spec == Init /\ [][Next]_vars

(***************************************************************************)
(* Motion: one analysis rendered twice, renderFrameFromAnalysis(analysis,   *)
(* frame[1]) and renderFrameFromAnalysis(analysis, frame[2]), the two calls *)
(* interleaving at their awaits.                                            *)
(***************************************************************************)
EmptyFrame == Frame(Undefined, Undefined, Undefined)
ZeroFrame == Frame(0, 0, 0)

\* The frame pairs rendered: still frames in their three spellings, a phase
\* alone, strengths inside and outside [0, 1], and one frame twice.
MotionFrames ==
  {<<NoFrame, NoFrame>>, <<NoFrame, EmptyFrame>>, <<NoFrame, ZeroFrame>>,
   <<NoFrame, Frame(3 * ONE, Undefined, Undefined)>>,
   <<Frame(0, ONE, 0), Frame(0, 2 * ONE, 0)>>,
   <<Frame(0, 0, ONE), Frame(0, 0, 2 * ONE)>>,
   <<ZeroFrame, Frame(0, 0, 0 - ONE)>>,
   <<Frame(3 * ONE, ONE, ONE), Frame(3 * ONE, ONE, ONE)>>}

InitMotion ==
  InitCall(Inputs({"topo-stroke"}), MotionFrames, {NoRequest}, "call", {<<>>})

SpecMotion == InitMotion /\ [][Next]_vars

(***************************************************************************)
(* HTTP: one POST, whose transformImage call is the pipeline above.         *)
(***************************************************************************)
\* The forms posted.  The presetId field is absent, empty or one of
\* CorePresetIds; the image field is absent, a string instead of a file, or an
\* uploaded file (given by what it decodes to).
Posts ==
  LET presetIds == {<<>>, <<"">>} \cup {<<id>> : id \in CorePresetIds}
      images == {[kind |-> "absent"], [kind |-> "string"]}
                  \cup {[kind |-> "file", rgb |-> i.rgb, width |-> i.width,
                         height |-> i.height] : i \in Inputs({""})}
  IN  {[pc |-> "received", form |-> [image |-> im, presetId |-> id], response |-> <<>>] :
         im \in images, id \in presetIds}

InitHttp ==
  InitCall({[rgb |-> <<>>, width |-> 0, height |-> 0, presetId |-> ""]}, {<<NoFrame>>},
           Posts, "idle", {<<>>})

NextHttp ==
  \/ Post
  \/ PostTransform
  \/ PostRespond
  \/ Next

SpecHttp == InitHttp /\ [][NextHttp]_vars

(***************************************************************************)
(* Audit: uploads that exercise the recoveries, each analysed once and      *)
(* rendered with two frames: 4x4 uploads on which the rescue pass recovers  *)
(* coverage, and uploads on which isolation starves the coverage.           *)
(***************************************************************************)
AuditInputs ==
  {[rgb |-> [i \in Pixels(c.width, c.height) |-> IF i \in c.lit THEN White ELSE Black],
    width |-> c.width, height |-> c.height, presetId |-> c.presetId] :
     c \in [width : {4}, height : {4},
            lit : {{3, 5, 6, 10, 11, 12, 13, 14}, {1, 5, 6, 10, 12, 13, 14, 15}},
            presetId : {"neon-contour", "industrial-noise"}]
           \cup [width : {2}, height : {6}, lit : {{}, {11}}, presetId : {"topo-stroke"}]
           \cup [width : {4}, height : {3}, lit : {{}}, presetId : {"topo-stroke"}]}

InitAudit ==
  InitCall(AuditInputs,
           {<<NoFrame, Frame(0, ONE, 0)>>, <<NoFrame, Frame(3 * ONE, ONE, ONE)>>,
            <<Frame(0, ONE, 0), Frame(3 * ONE, Undefined, Undefined)>>},
           {NoRequest}, "call", {<<>>})

SpecAudit == InitAudit /\ [][Next]_vars

(***************************************************************************)
(* The binarizer's functions on their own: unit.program is the sequence of  *)
(* functions to call, each on the raster the one before returned (the first *)
(* on unit.data), and unit.out collects what they return.                   *)
(***************************************************************************)
MaxOn == 3

\* The widest blur radius tried; 2 * BlurRadii + 1 exceeds both sides of a raster.
BlurRadii == 3

IsolateCall ==
  /\ unit # <<>>
  /\ Len(unit.out) < Len(unit.program)
  /\ unit.program[Len(unit.out) + 1] = "isolateWhitePixels"
  /\ unit' = [unit EXCEPT !.out =
                Append(@, isolateWhitePixels(IF @ = <<>> THEN unit.data ELSE @[Len(@)],
                                             unit.guide, unit.width, unit.height,
                                             unit.radius))]
  /\ UNCHANGED <<input, frame, apc, preset, analysis, rpc, running, stage, pass, inkMap,
                 map, tuned, pending, result, http>>
  /\ UNCHANGED loopVars

DilateCall ==
  /\ unit # <<>>
  /\ Len(unit.out) < Len(unit.program)
  /\ unit.program[Len(unit.out) + 1] = "dilate"
  /\ unit' = [unit EXCEPT !.out =
                Append(@, dilate(IF @ = <<>> THEN unit.data ELSE @[Len(@)],
                                 unit.width, unit.height, unit.radius))]
  /\ UNCHANGED <<input, frame, apc, preset, analysis, rpc, running, stage, pass, inkMap,
                 map, tuned, pending, result, http>>
  /\ UNCHANGED loopVars

ErodeCall ==
  /\ unit # <<>>
  /\ Len(unit.out) < Len(unit.program)
  /\ unit.program[Len(unit.out) + 1] = "erode"
  /\ unit' = [unit EXCEPT !.out =
                Append(@, erode(IF @ = <<>> THEN unit.data ELSE @[Len(@)],
                                unit.width, unit.height, unit.radius))]
  /\ UNCHANGED <<input, frame, apc, preset, analysis, rpc, running, stage, pass, inkMap,
                 map, tuned, pending, result, http>>
  /\ UNCHANGED loopVars

PruneCall ==
  /\ unit # <<>>
  /\ Len(unit.out) < Len(unit.program)
  /\ unit.program[Len(unit.out) + 1] = "pruneComponents"
  /\ unit' = [unit EXCEPT !.out =
                Append(@, pruneComponents(IF @ = <<>> THEN unit.data ELSE @[Len(@)],
                                          unit.width, unit.height, unit.minArea,
                                          unit.maxCount))]
  /\ UNCHANGED <<input, frame, apc, preset, analysis, rpc, running, stage, pass, inkMap,
                 map, tuned, pending, result, http>>
  /\ UNCHANGED loopVars

BlurCall ==
  /\ unit # <<>>
  /\ Len(unit.out) < Len(unit.program)
  /\ unit.program[Len(unit.out) + 1] = "boxBlur"
  /\ unit' = [unit EXCEPT !.out =
                Append(@, boxBlur(IF @ = <<>> THEN unit.data ELSE @[Len(@)],
                                  unit.width, unit.height, unit.radius))]
  /\ UNCHANGED <<input, frame, apc, preset, analysis, rpc, running, stage, pass, inkMap,
                 map, tuned, pending, result, http>>
  /\ UNCHANGED loopVars

NormalizeCall ==
  /\ unit # <<>>
  /\ Len(unit.out) < Len(unit.program)
  /\ unit.program[Len(unit.out) + 1] = "normalizeByPercentile"
  /\ unit' = [unit EXCEPT !.out =
                Append(@, normalizeByPercentile(IF @ = <<>> THEN unit.data ELSE @[Len(@)],
                                                unit.pLow, unit.pHigh))]
  /\ UNCHANGED <<input, frame, apc, preset, analysis, rpc, running, stage, pass, inkMap,
                 map, tuned, pending, result, http>>
  /\ UNCHANGED loopVars

AlignCall ==
  /\ unit # <<>>
  /\ Len(unit.out) < Len(unit.program)
  /\ unit.program[Len(unit.out) + 1] = "edgeAlignment"
  /\ unit' = [unit EXCEPT !.out = Append(@, edgeAlignment(unit.data, unit.guide))]
  /\ UNCHANGED <<input, frame, apc, preset, analysis, rpc, running, stage, pass, inkMap,
                 map, tuned, pending, result, http>>
  /\ UNCHANGED loopVars

\* The calls made: 4x3 rasters with at most MaxOn ones or at most MaxOn zeros;
\* guides that are constant, the noise table, and one with ties out of index
\* order; isolation twice with radius 0, 1 or 2; closing, and opening followed
\* by closing, with the radius 1 post-processing uses; pruning with small
\* minArea and maxCount and with the least maxCount post-processing passes;
\* blurring, with radius 0 to BlurRadii (windows wider than the buffer), of
\* the rasters with fewer than MaxOn ones or zeros (sparse) as buffers of 0.0
\* and 1.0, of the graded guide, and of 1x4 and 4x1 ramps; normalization twice,
\* with the percentile pairs the pipeline uses, of the sparse rasters, the
\* graded guide and buffers of one value (Levels: the ends, and values on and
\* off the centre of a histogram bin); edge alignment of the sparse rasters
\* against magnitudes at, just below and just above 0.2, and against
\* magnitudes of 0 and 1.
InitUnit ==
  LET px == Pixels(4, 3)
      rasters == {[i \in px |-> IF (i \in S) = on THEN 1 ELSE 0] :
                    S \in {T \in SUBSET px : Cardinality(T) <= MaxOn}, on \in BOOLEAN}
      flat == [i \in px |-> 0]
      guides == {flat, [i \in px |-> hashNoise(XOf(i, 4), YOf(i, 4))],
                 [i \in px |-> (i * 5) % 3]}
      call(program, data, guide, radius, minArea, maxCount) ==
        [program |-> program, data |-> data, guide |-> guide, width |-> 4, height |-> 3,
         radius |-> radius, minArea |-> minArea, maxCount |-> maxCount,
         pLow |-> 0, pHigh |-> 0, out |-> <<>>]
      sparse == {d \in rasters : WhiteCount(d) < MaxOn \/ WhiteCount(d) > 12 - MaxOn}
      real(d) == [i \in DOMAIN d |-> d[i] * ONE]
      graded == [i \in px |-> hashNoise(XOf(i, 4), YOf(i, 4))]
      ramp == [i \in 0 .. 3 |-> i * 300000]
      blur(data, width, height, radius) ==
        [call(<<"boxBlur">>, data, flat, radius, 0, 0)
           EXCEPT !.width = width, !.height = height]
      normalize(data, pLow, pHigh) ==
        [call(<<"normalizeByPercentile", "normalizeByPercentile">>, data, flat, 0, 0, 0)
           EXCEPT !.pLow = pLow, !.pHigh = pHigh]
      Levels == {0, 200000, 500000, 503000, ONE}
      edges == {[i \in px |-> 199999 + (i % 3)], [i \in px |-> (i % 2) * ONE]}
      percentiles == {<<20000, 980000>>, <<10000, 990000>>, <<5000, 985000>>}
  IN  InitCall({[rgb |-> <<>>, width |-> 0, height |-> 0, presetId |-> ""]},
               {<<NoFrame>>}, {NoRequest}, "idle",
               {call(<<"isolateWhitePixels", "isolateWhitePixels">>, d, g, r, 0, 0) :
                  d \in rasters, g \in guides, r \in 0 .. 2}
                 \cup {call(p, d, flat, 1, 0, 0) :
                         p \in {<<"dilate", "erode">>,
                                <<"erode", "dilate", "dilate", "erode">>},
                         d \in rasters}
                 \cup {call(<<"pruneComponents">>, d, flat, 0, a, c) :
                         d \in rasters, a \in 1 .. 3, c \in {0, 1, 2, 1000}}
                 \cup {blur(real(d), 4, 3, r) : d \in sparse, r \in 0 .. BlurRadii}
                 \cup {blur(graded, 4, 3, r) : r \in 0 .. BlurRadii}
                 \cup {blur(ramp, w, 5 - w, r) : w \in {1, 4}, r \in 0 .. BlurRadii}
                 \cup {call(<<"edgeAlignment">>, d, e, 0, 0, 0) : d \in sparse, e \in edges}
                 \cup {normalize(d, p[1], p[2]) :
                         d \in {real(b) : b \in sparse} \cup {graded}
                                \cup {[i \in px |-> v] : v \in Levels},
                         p \in percentiles})

NextUnit ==
  \/ AlignCall
  \/ BlurCall
  \/ NormalizeCall
  \/ IsolateCall
  \/ DilateCall
  \/ ErodeCall
  \/ PruneCall

SpecUnit == InitUnit /\ [][NextUnit]_vars

(***************************************************************************)
(* Properties                                                               *)
(***************************************************************************)
Handed == {r \in Requests : pending[r] # <<>>}
Returned == {r \in Requests : result[r] # <<>>}

\* C1: the raw buffer handed to the PNG encoder has exactly width*height
\* bytes, each 0 or 255, and the result reports the decoded raster's width
\* and height.
C1_RawBufferBinary ==
  /\ \A r \in Handed :
       /\ DOMAIN pending[r][1].raw = 0 .. (input.width * input.height - 1)
       /\ \A i \in DOMAIN pending[r][1].raw : pending[r][1].raw[i] \in {0, 255}
  /\ \A r \in Returned :
       /\ result[r][1].width = input.width
       /\ result[r][1].height = input.height

\* A result was returned whose raster has a white byte.
C1_Witness ==
  \E r \in Returned : \E i \in DOMAIN pending[r][1].raw : pending[r][1].raw[i] = 255

\* C2: every loop runs iterations 1 .. 8 and no more, and every returned
\* metrics record (primary or rescue) has tunedIterations = 8, whichever
\* iteration was best.
C2_TunedIterations ==
  /\ stage = "loop" => iter \in 1 .. MaxIterations + 1 /\ Len(trace) = iter - 1
  /\ stage = "tuned" => Len(trace) = MaxIterations
  /\ tuned # <<>> => tuned[1].metrics.tunedIterations = MaxIterations
  /\ \A r \in Handed : pending[r][1].metrics.tunedIterations = MaxIterations

\* A rescue loop has returned and its best iteration was not the last one.
C2_Witness ==
  /\ stage = "tuned"
  /\ pass = "rescue"
  /\ bestMetrics.tunedIterations \in 1 .. MaxIterations - 1
  /\ tuned[1].metrics.tunedIterations = MaxIterations

\* C3: what autoTune returns is the raster and the statistics of the
\* iteration of least cost among its eight, the earliest such on ties; every
\* cost is a number, so the all-zero placeholder is never what is returned.
C3_BestIsMinCost ==
  stage = "tuned" =>
    \E k \in 1 .. Len(trace) :
      /\ \A j \in 1 .. Len(trace) : ~IsNaN(trace[j].cost) /\ trace[k].cost <= trace[j].cost
      /\ \A j \in 1 .. k - 1 : trace[j].cost > trace[k].cost
      /\ tuned[1].binary.data = trace[k].post
      /\ tuned[1].metrics.whiteRatio = trace[k].coverage
      /\ tuned[1].metrics.componentCount = trace[k].count
      /\ tuned[1].metrics.meanComponentArea = trace[k].meanArea
      /\ tuned[1].metrics.maxComponentArea = trace[k].maxArea
      /\ tuned[1].metrics.edgeAlignmentScore = trace[k].align

\* C4: for a named preset, the emitted whiteRatio is within
\* max(coverageTolerance, 0.02) of whiteCoverageTarget or, failing that
\* (the coverage-starved case), at least 0.8 * minWhiteCoverageFloor.
C4_CoverageBound ==
  \A r \in Handed :
    input.presetId \in PresetIds =>
      LET p == PRESETS[input.presetId]
          whiteRatio == pending[r][1].metrics.whiteRatio
      IN  \/ Abs(whiteRatio - p.whiteCoverageTarget) <= Max(p.coverageTolerance, 20000)
          \/ whiteRatio * 10 >= 8 * p.minWhiteCoverageFloor

\* C5: fallbackSegmentation is true exactly when the raw mask's fraction of
\* ones is below 0.03 or above 0.86; the mask is then all ones; and the flag
\* analyzeImage computed is the one in the best metrics of each loop, in what
\* each loop returns, and in the metrics of the result.
C5_FallbackHonest ==
  analysis # <<>> =>
    \E raw \in {RawMaskOf(analysis[1])} :
      \E outside \in {\/ Cardinality({i \in DOMAIN raw : raw[i] = 1}) * 100
                           < 3 * Cardinality(DOMAIN raw)
                      \/ Cardinality({i \in DOMAIN raw : raw[i] = 1}) * 100
                           > 86 * Cardinality(DOMAIN raw)} :
        /\ analysis[1].fallbackSegmentation = outside
        /\ outside => \A i \in DOMAIN raw : analysis[1].mask[i] = ONE
        /\ stage \in {"loop", "tuned"} => bestMetrics.fallbackSegmentation = outside
        /\ tuned # <<>> => tuned[1].metrics.fallbackSegmentation = outside
        /\ \A r \in Handed : pending[r][1].metrics.fallbackSegmentation = outside
        /\ \A r \in Returned : result[r][1].metrics.fallbackSegmentation = outside

\* A result of the rescue pass carries a raised flag.
C5_Witness ==
  \E r \in Returned :
    /\ result[r][1].metrics.fallbackSegmentation
    /\ pending[r][1].pass = "rescue"
    /\ input.presetId \in PresetIds

\* C6 as stated: the mask estimateForegroundMask returns is binary and its
\* fraction of ones is in [0.03, 0.86], unless it is the all-ones fallback
\* returned with fallbackSegmentation = true.
C6_CommittedMaskRatio ==
  analysis # <<>> =>
    LET mask == analysis[1].mask
        ones == Cardinality({i \in DOMAIN mask : mask[i] = ONE})
        n == Cardinality(DOMAIN mask)
    IN  /\ \A i \in DOMAIN mask : mask[i] \in {0, ONE}
        /\ \/ analysis[1].fallbackSegmentation /\ ones = n
           \/ ones * 100 >= 3 * n /\ ones * 100 <= 86 * n

\* C6 amended: the returned mask is binary; either the raw mask, before
\* smoothing, has its fraction of ones in [0.03, 0.86], or the returned mask
\* is the all-ones fallback with fallbackSegmentation = true.  The fraction
\* of ones of the smoothed mask is not bounded.
C6_MaskBinaryRawRatio ==
  analysis # <<>> =>
    \E raw \in {RawMaskOf(analysis[1])} :
      LET mask == analysis[1].mask
          ones == Cardinality({i \in DOMAIN raw : raw[i] = 1})
          n == Cardinality(DOMAIN raw)
      IN  /\ \A i \in DOMAIN mask : mask[i] \in {0, ONE}
          /\ \/ /\ analysis[1].fallbackSegmentation
                /\ \A i \in DOMAIN mask : mask[i] = ONE
             \/ /\ ~analysis[1].fallbackSegmentation
                /\ ones * 100 >= 3 * n
                /\ ones * 100 <= 86 * n

\* A mask returned without the fallback whose smoothing left no ones.
C6_Witness ==
  /\ analysis # <<>>
  /\ ~analysis[1].fallbackSegmentation
  /\ \A i \in DOMAIN analysis[1].mask : analysis[1].mask[i] = 0
  /\ input.presetId \in PresetIds

\* C7: two renders of one bundle with the same frame return the same PNG and
\* the same metrics, however their awaits interleave, and no step taken
\* after analyzeImage has returned changes the bundle.
C7_Deterministic ==
  /\ [](\A r1, r2 \in Returned : frame[r1] = frame[r2] => result[r1] = result[r2])
  /\ [][analysis # <<>> => analysis' = analysis]_vars

\* Both renders of one frame have returned, with a white pixel.
C7_Witness ==
  /\ Returned = {1, 2}
  /\ frame[1] = frame[2]
  /\ \E i \in DOMAIN pending[2][1].raw : pending[2][1].raw[i] = 255

\* C8: the render without a frame (transformImage) and a render of the same
\* analysis with an absent, empty or all-zero frame return the same result;
\* and frames that differ only in flowStrength or jitter values with the
\* same clamp to [0, 1] render the same.
C8_StillFrames ==
  \A r1, r2 \in Returned :
    \/ {frame[r1], frame[r2]} \subseteq {NoFrame, EmptyFrame, ZeroFrame}
    \/ /\ frame[r1].given /\ frame[r2].given
       /\ frame[r1].phase = frame[r2].phase
       /\ \A f \in {"flowStrength", "jitter"} :
            /\ frame[r1][f] # Undefined /\ frame[r2][f] # Undefined
            /\ Max(0, Min(ONE, frame[r1][f])) = Max(0, Min(ONE, frame[r2][f]))
    => result[r1] = result[r2]

\* The frameless render and the all-zero frame's render have returned, with
\* a white pixel.
C8_Witness ==
  /\ Returned = {1, 2}
  /\ frame = <<NoFrame, ZeroFrame>>
  /\ \E i \in DOMAIN pending[1][1].raw : pending[1][1].raw[i] = 255

\* C9: a presetId that is not one of the five names resolves to the
\* neon-contour preset, which is also the preset of the result.
C9_UnknownIsNeonContour ==
  input.presetId \notin PresetIds =>
    /\ preset # <<>> => preset[1] = PRESETS["neon-contour"]
    /\ \A r \in Returned : result[r][1].preset = PRESETS["neon-contour"]

\* C10: a POST without an image file is answered 400 'Missing image file', a
\* POST with a file and a presetId that is none of the five names (an absent
\* or empty field counting as neon-contour) is answered 400 'Unknown
\* preset', and transformImage is called for neither.
C10_RouteRejects ==
  LET form == http.form
  IN  /\ form.image.kind # "file" =>
           /\ apc = "idle"
           /\ http.pc = "responded" =>
                http.response = <<[status |-> 400, error |-> "Missing image file"]>>
      /\ /\ form.image.kind = "file"
         /\ form.presetId \notin {<<>>, <<"">>}
         /\ form.presetId[1] \notin PresetIds
         => /\ apc = "idle"
            /\ http.pc # "reading"
            /\ http.pc = "responded" =>
                 http.response = <<[status |-> 400, error |-> "Unknown preset"]>>

\* C11: every recovery that ran during a render is recorded in the returned
\* metrics: the fallback flag of the metrics is the one of the analysis, and
\* two renders of which one ran the rescue pass and the other did not never
\* carry equal metrics.
C11_RecoveriesRecorded ==
  \A r1, r2 \in Handed :
    /\ pending[r1][1].metrics.fallbackSegmentation = analysis[1].fallbackSegmentation
    /\ pending[r1][1].metrics = pending[r2][1].metrics
         => pending[r1][1].pass = pending[r2][1].pass

\* C12: an input of width 1 or height 1 is rendered to completion and the
\* raster handed to the encoder is all zero, whatever the preset.
C12_ThinInputsAllZero ==
  \A r \in Handed :
    input.width = 1 \/ input.height = 1
      => \A i \in DOMAIN pending[r][1].raw : pending[r][1].raw[i] = 0

\* C13: the first threshold of a loop is 0.34 + 0.04 * spaceiness; after an
\* iteration the threshold goes up by that iteration's step iff its coverage
\* is strictly above whiteCoverageTarget, down by the step otherwise, and is
\* then clamped; every threshold handed to the ditherer is in [0, 1].
C13_ThresholdRule ==
  stage \in {"loop", "tuned"} =>
    LET p == analysis[1].preset
        thresholds == [k \in 1 .. Len(trace) |-> trace[k].threshold]
                        \o (IF iter <= MaxIterations THEN <<threshold>> ELSE <<>>)
    IN  /\ \A k \in DOMAIN thresholds : thresholds[k] >= 0 /\ thresholds[k] <= ONE
        /\ Len(thresholds) > 0 => thresholds[1] = 340000 + (p.spaceiness * 4) \div 100
        /\ \A k \in DOMAIN trace :
             k + 1 \in DOMAIN thresholds =>
               LET moved == IF trace[k].coverage > p.whiteCoverageTarget
                            THEN trace[k].threshold + trace[k].step
                            ELSE trace[k].threshold - trace[k].step
               IN  thresholds[k + 1] = Max(0, Min(ONE, moved))

\* C14: the step of iteration 1 is 0.16 in the primary loop and in the rescue
\* loop alike, each later step is 0.62 times the one before (to the unit of
\* the arithmetic), so the steps strictly decrease, and iteration k uses the
\* k-th step whatever the coverages were.
C14_StepSequence ==
  stage \in {"loop", "tuned"} =>
    LET steps == [k \in 1 .. Len(trace) |-> trace[k].step]
                   \o (IF iter <= MaxIterations THEN <<step>> ELSE <<>>)
    IN  /\ Len(trace) = iter - 1
        /\ \A k \in DOMAIN trace : trace[k].iter = k
        /\ Len(steps) > 0 => steps[1] = 160000
        /\ \A k \in DOMAIN steps :
             k + 1 \in DOMAIN steps =>
               /\ steps[k + 1] < steps[k]
               /\ steps[k + 1] * 100 <= 62 * steps[k]
               /\ steps[k + 1] * 100 > 62 * steps[k] - 100

\* A rescue loop has run all its iterations, some with the coverage above the
\* target and some not.
C14_Witness ==
  /\ stage = "tuned"
  /\ pass = "rescue"
  /\ Len(trace) = MaxIterations
  /\ \E j, k \in DOMAIN trace :
       /\ trace[j].coverage > analysis[1].preset.whiteCoverageTarget
       /\ trace[k].coverage <= analysis[1].preset.whiteCoverageTarget
       /\ analysis[1].preset.id \in PresetIds

\* C15: in every iteration the raster measured is the fully post-processed
\* dither output, unless that one's coverage is below minWhiteCoverageFloor
\* and the preset isolates whites: then it is the same dither output
\* post-processed without isolation.  Coverage, component statistics, edge
\* alignment and cost are those of the raster measured, and so is the stored
\* best raster.
C15_StarvedFallback ==
  stage \in {"loop", "tuned"} =>
    \A k \in DOMAIN trace :
      \A a \in {analysis[1]} :
        \A raw \in {makeBinary(map, a.width, a.height, a.preset, trace[k].threshold)} :
          \A isolated \in {applyPostProcessing(raw, map, a.width, a.height, a.preset)} :
            \A used \in {IF /\ computeBinaryStats(a.width, a.height, isolated)
                                 < a.preset.minWhiteCoverageFloor
                            /\ a.preset.isolateWhites
                         THEN applyPostProcessingNoIsolation(raw, a.width, a.height,
                                                             a.preset)
                         ELSE isolated} :
              \A cc \in {connectedComponents(a.width, a.height, used)} :
                /\ trace[k].post = used
                /\ trace[k].coverage = computeBinaryStats(a.width, a.height, used)
                /\ trace[k].count = cc.count
                /\ trace[k].meanArea = cc.meanArea
                /\ trace[k].maxArea = cc.maxArea
                /\ trace[k].align = edgeAlignment(used, a.sobelRes.mag)
                /\ trace[k].cost = Cost(used, trace[k].coverage, cc.count, trace[k].align,
                                        a.width, a.height, a.preset)
                /\ bestMetrics.tunedIterations = k =>
                     bestData = used /\ bestMetrics.whiteRatio = trace[k].coverage

\* A loop of an isolating preset has measured a replacement raster that differs
\* from the isolated one in one iteration and the isolated raster in another.
C15_Witness ==
  /\ stage = "tuned"
  /\ analysis[1].preset.id \in PresetIds
  /\ analysis[1].preset.isolateWhites
  /\ \E j, k \in DOMAIN trace :
       /\ trace[j].starved
       /\ trace[j].post #
            applyPostProcessing(makeBinary(map, analysis[1].width, analysis[1].height,
                                           analysis[1].preset, trace[j].threshold),
                                map, analysis[1].width, analysis[1].height,
                                analysis[1].preset)
       /\ ~trace[k].starved

\* C16: when the primary loop has returned, the rescue pass is entered iff the
\* whiteRatio of what it returned is below 0.9 * minWhiteCoverageFloor, and
\* otherwise that return is emitted; the rescue loop starts at iteration 1
\* with the initial threshold and step on the boosted copy of the ink map and
\* leaves the ink map as it was; a loop returns after 8 iterations; what the
\* rescue loop returns is emitted, so the pass runs at most once.
C16_RescuePass ==
  /\ [](/\ stage = "tuned" => Len(trace) = MaxIterations
        /\ (stage \in {"loop", "tuned"} /\ pass = "rescue")
             => map = BoostedMap(inkMap) /\ analysis[1].preset.id \in PresetIds)
  /\ [][stage = "tuned" =>
          LET p == analysis[1].preset
              low == tuned[1].metrics.whiteRatio < (p.minWhiteCoverageFloor \div 10) * 9
          IN  IF pass = "primary" /\ low
              THEN /\ stage' = "loop"
                   /\ pass' = "rescue"
                   /\ running' = running
                   /\ iter' = 1
                   /\ threshold' = 340000 + (p.spaceiness * 4) \div 100
                   /\ step' = 160000
                   /\ trace' = <<>>
                   /\ bestCost' = Infinity
                   /\ \A i \in DOMAIN bestData' : bestData'[i] = 0
                   /\ inkMap' = inkMap
                   /\ pending' = pending
              ELSE /\ stage' = "idle"
                   /\ running' = 0
                   /\ pending'[running] # <<>>
                   /\ pending'[running][1].metrics = tuned[1].metrics
                   /\ \A i \in DOMAIN tuned[1].binary.data :
                        pending'[running][1].raw[i] =
                          IF tuned[1].binary.data[i] # 0 THEN 255 ELSE 0]_vars

\* A rescue loop has returned, its map differing from the ink map; the primary
\* loop's coverage was below nine tenths of the floor.
C16_Witness ==
  /\ stage = "tuned"
  /\ pass = "rescue"
  /\ map # inkMap
  /\ \E i \in DOMAIN tuned[1].binary.data : tuned[1].binary.data[i] # 0

\* C17: isolating the whites of an already isolated raster, with the same
\* guide and radius, changes nothing; with radius 0 the first isolation
\* returns its input.
C17_IsolateIdempotent ==
  (unit # <<>> /\ unit.program[1] = "isolateWhitePixels") =>
    /\ Len(unit.out) = 2 => unit.out[2] = unit.out[1]
    /\ (Len(unit.out) >= 1 /\ unit.radius = 0) => unit.out[1] = unit.data

\* Isolation with a positive radius has removed whites, kept more than one,
\* and has been applied again.
C17_Witness ==
  /\ unit # <<>>
  /\ unit.program[1] = "isolateWhitePixels"
  /\ Len(unit.out) = 2
  /\ unit.radius >= 1
  /\ unit.out[1] # unit.data
  /\ Cardinality({i \in DOMAIN unit.out[1] : unit.out[1][i] # 0}) >= 2

\* C18: the whites isolateWhitePixels returns are whites of its input, no two
\* of them are within L1 distance radius of each other, and every input white
\* it dropped has a returned white within L1 distance radius that comes before
\* it in the visiting order: a greater guide value, or an equal one and a
\* smaller index.
C18_IsolateGreedy ==
  (unit # <<>> /\ unit.program[1] = "isolateWhitePixels" /\ Len(unit.out) >= 1) =>
    LET o == unit.out[1]
        L1(i, j) == Abs(XOf(i, unit.width) - XOf(j, unit.width))
                      + Abs(YOf(i, unit.width) - YOf(j, unit.width))
    IN  /\ \A i \in DOMAIN o : o[i] # 0 => unit.data[i] # 0
        /\ \A i, j \in DOMAIN o :
             (i # j /\ o[i] # 0 /\ o[j] # 0) => L1(i, j) > unit.radius
        /\ \A i \in DOMAIN o :
             (unit.data[i] # 0 /\ o[i] = 0) =>
               \E j \in DOMAIN o :
                 /\ o[j] # 0
                 /\ L1(i, j) <= unit.radius
                 /\ \/ unit.guide[j] > unit.guide[i]
                    \/ unit.guide[j] = unit.guide[i] /\ j < i

\* Isolation under a guide with distinct values and ties has dropped a white
\* that comes before, in index order, the white that blocked it.
C18_Witness ==
  /\ unit # <<>>
  /\ unit.program[1] = "isolateWhitePixels"
  /\ Len(unit.out) >= 1
  /\ unit.radius = 2
  /\ \E i, j \in DOMAIN unit.data :
       /\ i < j
       /\ unit.data[i] # 0
       /\ unit.out[1][i] = 0
       /\ unit.out[1][j] # 0
       /\ unit.guide[j] > unit.guide[i]
       /\ \E k \in DOMAIN unit.guide : k # i /\ unit.guide[k] = unit.guide[i]

\* C19: closing keeps every white pixel: each white of B, border pixels
\* included, is white in erode(dilate(B, 1), 1), where B is any raster, in
\* particular one that the opening dilate(erode(., 1), 1) returned.
C19_ClosingExtensive ==
  (/\ unit # <<>>
   /\ unit.program[1] \in {"dilate", "erode"}
   /\ Len(unit.out) = Len(unit.program)) =>
    LET B == IF Len(unit.program) = 2 THEN unit.data ELSE unit.out[2]
        closed == unit.out[Len(unit.out)]
    IN  \A i \in DOMAIN B : B[i] # 0 => closed[i] # 0

\* C20: pruneComponents returns whites of its input only, keeps or drops each
\* 4-connected component whole, keeps only components of area >= minArea and
\* at most maxCount of them, and drops a component of area >= minArea only
\* if maxCount components at least as large are kept.
C20_PruneComponents ==
  (unit # <<>> /\ unit.program[1] = "pruneComponents" /\ Len(unit.out) = 1) =>
    LET o == unit.out[1]
        W == {i \in DOMAIN o : o[i] # 0}
        comps == ComponentsFrom(0, {}, unit.data, unit.width, unit.height)
        kept == {k \in DOMAIN comps : comps[k] \subseteq W}
        L1(i, j) == Abs(XOf(i, unit.width) - XOf(j, unit.width))
                      + Abs(YOf(i, unit.width) - YOf(j, unit.width))
    IN  /\ \A i \in W : unit.data[i] # 0 /\ o[i] = 1
        /\ \A i, j \in DOMAIN o :
             (unit.data[i] # 0 /\ unit.data[j] # 0 /\ L1(i, j) = 1) => o[i] = o[j]
        /\ \A k \in DOMAIN comps : comps[k] \subseteq W \/ comps[k] \cap W = {}
        /\ \A k \in kept : Cardinality(comps[k]) >= unit.minArea
        /\ Cardinality(kept) <= unit.maxCount
        /\ \A k \in DOMAIN comps \ kept :
             \/ Cardinality(comps[k]) < unit.minArea
             \/ Cardinality({j \in kept : Cardinality(comps[j]) >= Cardinality(comps[k])})
                  >= unit.maxCount

\* A pruning with maxCount 1 has kept the largest component and dropped one
\* that is large enough for its rank; pixels 3 and 4, neighbours in index only
\* (the end of row 0 and the start of row 1), were in different components.
C20_Witness ==
  /\ unit # <<>>
  /\ unit.program[1] = "pruneComponents"
  /\ Len(unit.out) = 1
  /\ unit.maxCount = 1
  /\ unit.data[3] # 0
  /\ unit.data[4] # 0
  /\ unit.out[1][3] = 0
  /\ unit.out[1][4] # 0
  /\ Cardinality(Flood({3}, unit.data, unit.width, unit.height)) >= unit.minArea

\* C21: for the raster an iteration dithers, applyPostProcessingNoIsolation
\* returns the raster applyPostProcessing holds before its isolation step
\* (what applyPostProcessing returns when isolateWhites is off); the isolated
\* result is the isolation of that raster, hence a subset of it, and its
\* coverage is never above the coverage of the no-isolation raster.
C21_NoIsolationIsPreIsolation ==
  (stage = "loop" /\ iter <= MaxIterations) =>
    \A a \in {analysis[1]} :
      \A raw \in {makeBinary(map, a.width, a.height, a.preset, threshold)} :
        \A noIso \in {applyPostProcessingNoIsolation(raw, a.width, a.height, a.preset)} :
          \A isolated \in {applyPostProcessing(raw, map, a.width, a.height, a.preset)} :
            /\ noIso = applyPostProcessing(raw, map, a.width, a.height,
                                           [a.preset EXCEPT !.isolateWhites = FALSE])
            /\ a.preset.isolateWhites =>
                 isolated = isolateWhitePixels(noIso, map, a.width, a.height,
                                               a.preset.isolationRadius)
            /\ ~a.preset.isolateWhites => isolated = noIso
            /\ \A i \in DOMAIN isolated : isolated[i] # 0 => noIso[i] # 0
            /\ computeBinaryStats(a.width, a.height, isolated)
                 <= computeBinaryStats(a.width, a.height, noIso)

\* An iteration of an isolating preset where isolation removed white pixels
\* that the no-isolation raster keeps.
C21_Witness ==
  /\ stage = "loop"
  /\ iter <= MaxIterations
  /\ analysis[1].preset.isolateWhites
  /\ \E raw \in {makeBinary(map, analysis[1].width, analysis[1].height,
                            analysis[1].preset, threshold)} :
       /\ WhiteCount(applyPostProcessing(raw, map, analysis[1].width, analysis[1].height,
                                         analysis[1].preset)) > 0
       /\ WhiteCount(applyPostProcessing(raw, map, analysis[1].width, analysis[1].height,
                                         analysis[1].preset))
            < WhiteCount(applyPostProcessingNoIsolation(raw, analysis[1].width,
                                                        analysis[1].height,
                                                        analysis[1].preset))

\* C22: floydDither's output is 1 at a pixel iff the pixel's working value is at
\* least the threshold, where the working value is the map value plus the
\* error shares of the pixels visited before it: 7/16 of the left neighbour's
\* error, 1/16, 5/16 and 3/16 of the errors of the pixels above-left, above and
\* above-right, each only if that neighbour is inside the image (same row for
\* the left one, previous row for the others); nothing else reaches a pixel.
C22_FloydDiffusion ==
  (stage = "loop" /\ iter <= MaxIterations /\ analysis[1].preset.dither = "floyd") =>
    \A width \in {analysis[1].width} :
      \A height \in {analysis[1].height} :
        LET Err(v) == Sub(v, IF Ge(v, threshold) THEN ONE ELSE 0)
            RECURSIVE Working(_, _)
            Working(i, seen) ==
              IF i >= width * height THEN seen
              ELSE LET x == XOf(i, width)
                       y == YOf(i, width)
                       left == IF x > 0 THEN Share(Err(seen[i]), 7) ELSE 0
                       upLeft == IF y > 0 /\ x > 0
                                 THEN Share(Err(seen[i - width]), 1) ELSE 0
                       up == IF y > 0 THEN Share(Err(seen[i - width + 1]), 5) ELSE 0
                       upRight == IF y > 0 /\ x + 1 < width
                                  THEN Share(Err(seen[i - width + 2]), 3) ELSE 0
                   IN  Working(i + 1,
                               Append(seen, Add(Add(Add(Add(map[i], upLeft), up),
                                                    upRight), left)))
        IN  \A work \in {Working(0, <<>>)} :
              \A out \in {floydDither(map, width, height, threshold)} :
                \A i \in Pixels(width, height) :
                  out[i] = IF Ge(work[i + 1], threshold) THEN 1 ELSE 0

\* A floyd iteration in which received error decides a pixel: its output
\* differs from thresholding the map value alone.
C22_Witness ==
  /\ stage = "loop"
  /\ iter <= MaxIterations
  /\ analysis[1].preset.dither = "floyd"
  /\ \E out \in {floydDither(map, analysis[1].width, analysis[1].height, threshold)} :
       /\ \E i \in DOMAIN out : out[i] = 1 /\ Lt(map[i], threshold)
       /\ \E i \in DOMAIN out : out[i] = 0

\* C23: what boxBlur returns is, at each pixel, the mean over the 2r+1 rows
\* around it (rows outside the image read as the nearest row) of the means over
\* the 2r+1 columns around it (columns outside read as the nearest column),
\* also when 2r+1 exceeds the image; with radius 0 it returns its input.
C23_BoxBlurIsClampedMean ==
  (unit # <<>> /\ unit.program = <<"boxBlur">> /\ unit.out # <<>>) =>
    \A w \in {unit.width} :
      \A h \in {unit.height} :
        \A r \in {unit.radius} :
          LET near(k, len) == IF k < 0 THEN 0 ELSE IF k > len - 1 THEN len - 1 ELSE k
              horizontal(x, y) ==
                RoundDiv(SeqSum([j \in 1 .. 2 * r + 1 |->
                                   unit.data[y * w + near(x + j - r - 1, w)]]),
                         2 * r + 1)
          IN  \A rows \in {[i \in Pixels(w, h) |-> horizontal(XOf(i, w), YOf(i, w))]} :
                /\ DOMAIN unit.out[1] = Pixels(w, h)
                /\ \A i \in Pixels(w, h) :
                     unit.out[1][i] =
                       RoundDiv(SeqSum([j \in 1 .. 2 * r + 1 |->
                                          rows[near(YOf(i, w) + j - r - 1, h) * w
                                               + XOf(i, w)]]),
                                2 * r + 1)
                /\ r = 0 => unit.out[1] = unit.data

\* A blur with a window wider than the image, of a buffer that is not constant,
\* whose result is not constant either.
C23_Witness ==
  /\ unit # <<>>
  /\ unit.program = <<"boxBlur">>
  /\ unit.out # <<>>
  /\ 2 * unit.radius + 1 > unit.width
  /\ unit.radius < BlurRadii
  /\ \E i, j \in DOMAIN unit.data : unit.data[i] # unit.data[j]
  /\ \E i, j \in DOMAIN unit.out[1] : unit.out[1][i] # unit.out[1][j]

\* C24: normalizing a normalized buffer again with the same percentiles moves
\* no element by more than 1/255.
C24_RenormalizeWithinOneBin ==
  (unit # <<>> /\ Len(unit.out) = 2 /\ unit.program[1] = "normalizeByPercentile") =>
    \A i \in DOMAIN unit.data :
      255 * Abs(unit.out[2][i] - unit.out[1][i]) <= ONE

\* C25: edgeAlignment returns the fraction of the white pixels whose stored
\* magnitude is at least 0.2, a white pixel whose magnitude is 0.2 counted; it
\* returns 0 when no pixel is white, and the score lies in [0, 1].
C25_EdgeAlignmentFromPointTwo ==
  (unit # <<>> /\ unit.program = <<"edgeAlignment">> /\ unit.out # <<>>) =>
    \A white \in {WhiteCount(unit.data)} :
      \A aligned \in {Cardinality({i \in DOMAIN unit.data :
                                     unit.data[i] = 1 /\ unit.guide[i] >= 200000})} :
        /\ unit.out[1] >= 0
        /\ unit.out[1] <= ONE
        /\ white = 0 => unit.out[1] = 0
        /\ unit.out[1] * white <= aligned * ONE
        /\ white > 0 => aligned * ONE < (unit.out[1] + 1) * white
        /\ \A i \in DOMAIN unit.data :
             (white = 1 /\ unit.data[i] = 1 /\ unit.guide[i] = 200000)
               => unit.out[1] = ONE

\* A call whose white pixels include one of magnitude 0.2, one just below and
\* one just above.
C25_Witness ==
  /\ unit # <<>>
  /\ unit.program = <<"edgeAlignment">>
  /\ unit.out # <<>>
  /\ \E i, j, k \in DOMAIN unit.data :
       /\ unit.data[i] = 1 /\ unit.guide[i] = 200000
       /\ unit.data[j] = 1 /\ unit.guide[j] = 199999
       /\ unit.data[k] = 1 /\ unit.guide[k] = 200001
  /\ unit.out[1] > 0
  /\ unit.out[1] < ONE

\* C26: the metrics handed out with a raster describe that raster: whiteRatio
\* is its number of white pixels over width * height, componentCount times
\* meanComponentArea is that number, maxComponentArea is the size of its
\* largest set of whites connected by horizontal and vertical steps,
\* componentCount is the number of such sets, and it is 0 iff no pixel is
\* white; in the primary and in the rescue pass.
C26_MetricsDescribeBinary ==
  \A r \in Requests :
    pending[r] # <<>> =>
      \A w \in {analysis[1].width} :
        \A h \in {analysis[1].height} :
          \A raw \in {pending[r][1].raw} :
            \A m \in {pending[r][1].metrics} :
              LET white == {i \in Pixels(w, h) : raw[i] = 255}
                  touching(i, j) ==
                    \/ YOf(i, w) = YOf(j, w) /\ Abs(XOf(i, w) - XOf(j, w)) = 1
                    \/ XOf(i, w) = XOf(j, w) /\ Abs(YOf(i, w) - YOf(j, w)) = 1
                  RECURSIVE grow(_)
                  grow(S) ==
                    LET more == {j \in white \ S : \E i \in S : touching(i, j)}
                    IN  IF more = {} THEN S ELSE grow(S \cup more)
              IN  \A parts \in {{grow({i}) : i \in white}} :
                    /\ \A i \in Pixels(w, h) : raw[i] \in {0, 255}
                    /\ m.whiteRatio = (Cardinality(white) * ONE) \div (w * h)
                    /\ m.componentCount = Cardinality(parts)
                    /\ m.componentCount = 0 <=> white = {}
                    /\ m.componentCount > 0 =>
                         m.meanComponentArea
                           = (Cardinality(white) * ONE) \div m.componentCount
                    /\ m.componentCount = 0 => m.meanComponentArea = 0
                    /\ \A p \in parts : Cardinality(p) <= m.maxComponentArea
                    /\ white # {} => \E p \in parts : Cardinality(p) = m.maxComponentArea
                    /\ white = {} => m.maxComponentArea = 0

\* A raster with white pixels handed out by the rescue pass.
C26_Witness ==
  \E r \in Requests :
    /\ pending[r] # <<>>
    /\ pending[r][1].pass = "rescue"
    /\ pending[r][1].metrics.componentCount >= 1
    /\ \E i \in DOMAIN pending[r][1].raw : pending[r][1].raw[i] = 255

\* C27: no step of a render's tuning writes to what it was given: while the
\* section runs (from the loop's start until the raster is handed out) the ink
\* map and the analysis bundle, edge map included, keep their values, and the
\* map a loop dithers keeps its value from iteration to iteration; so the
\* raster recorded for an iteration is the one its threshold gives on the map
\* as it is now, and iterations with equal thresholds recorded equal rasters.
C27_LoopInputsUntouched ==
  [][((stage = "loop" \/ stage = "tuned") /\ (stage' = "loop" \/ stage' = "tuned")) =>
       /\ inkMap' = inkMap
       /\ analysis' = analysis
       /\ stage = "loop" => map' = map
       /\ \A j, k \in DOMAIN trace' :
            trace'[j].threshold = trace'[k].threshold => trace'[j].post = trace'[k].post
       /\ \A k \in DOMAIN trace' :
            \A a \in {analysis'[1]} :
              \A raw \in {makeBinary(map', a.width, a.height, a.preset,
                                     trace'[k].threshold)} :
                \/ trace'[k].post = applyPostProcessing(raw, map', a.width, a.height,
                                                        a.preset)
                \/ trace'[k].post = applyPostProcessingNoIsolation(raw, a.width, a.height,
                                                                   a.preset)]_vars

\* A rescue loop, on a boosted map that differs from the ink map, that has
\* evaluated at least two iterations and found white pixels.
C27_Witness ==
  /\ stage = "loop"
  /\ pass = "rescue"
  /\ map # inkMap
  /\ Len(trace) >= 2
  /\ \E k \in DOMAIN trace : \E i \in DOMAIN trace[k].post : trace[k].post[i] # 0

\* C28: with a preset that isolates whites with a radius of at least 1, an
\* iteration whose isolated coverage reached the floor evaluated a raster in
\* which no white pixel has a white pixel beside, above or below it; its
\* component count is its number of white pixels and, if it has any, its
\* mean and its largest component area are 1.
C28_IsolatedComponentsAreSingle ==
  \A k \in DOMAIN trace :
    \A a \in {analysis[1]} :
      (a.preset.isolateWhites /\ a.preset.isolationRadius >= 1 /\ ~trace[k].starved) =>
        \A post \in {trace[k].post} :
          /\ ~Lt(computeBinaryStats(a.width, a.height, post),
                 a.preset.minWhiteCoverageFloor)
          /\ \A i, j \in DOMAIN post :
               (post[i] # 0 /\ post[j] # 0) =>
                 Abs(XOf(i, a.width) - XOf(j, a.width))
                   + Abs(YOf(i, a.width) - YOf(j, a.width)) # 1
          /\ trace[k].count = WhiteCount(post)
          /\ WhiteCount(post) > 0 =>
               trace[k].meanArea = ONE /\ trace[k].maxArea = 1

\* An iteration that was not starved and kept at least two whites after
\* isolation removed some.
C28_Witness ==
  /\ stage = "loop"
  /\ analysis[1].preset.isolateWhites
  /\ \E k \in DOMAIN trace :
       /\ ~trace[k].starved
       /\ trace[k].count >= 2
       /\ WhiteCount(trace[k].post)
            < WhiteCount(applyPostProcessingNoIsolation(
                           makeBinary(map, analysis[1].width, analysis[1].height,
                                      analysis[1].preset, trace[k].threshold),
                           analysis[1].width, analysis[1].height, analysis[1].preset))

\* C29: for the map of a loop and any two thresholds the loop has used or is
\* about to use, the ordered dither at the higher threshold sets no pixel that
\* the dither at the lower threshold leaves black, so it sets no more pixels;
\* and the 8x8 matrix holds each of 0 .. 63 exactly once.
C29_BayerMonotone ==
  /\ \A r, c \in 1 .. 8 : bayer8[r][c] \in 0 .. 63
  /\ \A v \in 0 .. 63 :
       Cardinality({rc \in (1 .. 8) \X (1 .. 8) : bayer8[rc[1]][rc[2]] = v}) = 1
  /\ (stage = "loop" /\ iter <= MaxIterations) =>
       \A w \in {analysis[1].width} :
         \A h \in {analysis[1].height} :
           \A t1, t2 \in {trace[k].threshold : k \in DOMAIN trace} \cup {threshold} :
             (~IsNaN(t1) /\ ~IsNaN(t2) /\ t1 <= t2) =>
               \A low \in {bayerDither(map, w, h, t1)} :
                 \A high \in {bayerDither(map, w, h, t2)} :
                   /\ \A i \in Pixels(w, h) : high[i] = 1 => low[i] = 1
                   /\ WhiteCount(high) <= WhiteCount(low)

\* A loop of a preset that dithers with the matrix, in which a higher
\* threshold set fewer pixels than a lower one, and not none.
C29_Witness ==
  /\ stage = "loop"
  /\ iter <= MaxIterations
  /\ analysis[1].preset.dither = "bayer"
  /\ \E j, k \in DOMAIN trace :
       /\ trace[j].threshold < trace[k].threshold
       /\ WhiteCount(bayerDither(map, analysis[1].width, analysis[1].height,
                                 trace[k].threshold)) > 0
       /\ WhiteCount(bayerDither(map, analysis[1].width, analysis[1].height,
                                 trace[k].threshold))
            < WhiteCount(bayerDither(map, analysis[1].width, analysis[1].height,
                                     trace[j].threshold))

\* C30: for a preset whose spaceiness is in [0, 1], the threshold of each
\* iteration of a loop is no further from the loop's first threshold
\* 0.34 + 0.04 * spaceiness than the sum of the steps of the iterations before
\* it; that sum stays below 0.407 (seven steps: 0.16 * (1 - 0.62^7) / 0.38), and
\* no threshold is above 0.79.
C30_ThresholdExcursion ==
  (/\ stage \in {"loop", "tuned"}
   /\ ~IsNaN(analysis[1].preset.spaceiness)
   /\ analysis[1].preset.spaceiness >= 0
   /\ analysis[1].preset.spaceiness <= ONE) =>
    LET t0 == 340000 + (analysis[1].preset.spaceiness * 4) \div 100
        thresholds == [k \in 1 .. Len(trace) |-> trace[k].threshold]
                        \o (IF iter <= MaxIterations THEN <<threshold>> ELSE <<>>)
    IN  \A k \in DOMAIN thresholds :
          \A before \in {SeqSum([j \in 1 .. k - 1 |-> trace[j].step])} :
            /\ Abs(thresholds[k] - t0) <= before
            /\ before < 407000
            /\ thresholds[k] <= 790000

\* The eighth iteration is about to run with a threshold that every one of the
\* seven iterations before it raised: it is as far above the first threshold
\* as the seven steps reach.
C30_Witness ==
  /\ stage = "loop"
  /\ iter = MaxIterations
  /\ ~IsNaN(analysis[1].preset.spaceiness)
  /\ threshold - (340000 + (analysis[1].preset.spaceiness * 4) \div 100)
       = SeqSum([j \in 1 .. Len(trace) |-> trace[j].step])

====
